---- MODULE Spec2Model ----
(***************************************************************************)
(* Material recommendation and scoring engine (backend/services):          *)
(*   scoring.py      MaterialScorer                                        *)
(*   database.py     MaterialDatabase (catalog queries, similarity)        *)
(*   recommender.py  MaterialRecommender (filter, score, rank, cache)      *)
(*   simulation.py   PropertySimulator.analyze_tradeoffs                   *)
(*                                                                         *)
(* Python floats are modelled as exact rationals <<n, d>> with d > 0 in    *)
(* lowest terms.  <<0, 0>> is Python's None and <<1, 0>> marks a raised    *)
(* exception (it is sticky through every arithmetic operator, as an        *)
(* exception aborts the enclosing computation).                            *)
(***************************************************************************)
EXTENDS Integers, Sequences, FiniteSets, TLC

VARIABLES materials, cache, now, inp, last

vars == <<materials, cache, now, inp, last>>

(***************************************************************************)
(* Rational arithmetic                                                     *)
(***************************************************************************)
None == <<0, 0>>

Err == <<1, 0>>

IsNone(x) == x = None

IsErr(x) == x = Err

IsNum(x) == x[2] > 0

Abs(n) == IF n < 0 THEN -n ELSE n

\* A local variable assignment: value is evaluated once and Body uses the
\* result.
Assign(value, Body(_)) == CHOOSE r \in {Body(v) : v \in {value}} : TRUE

\* The same for two values.
Assign2(value1, value2, Body(_, _)) ==
    CHOOSE r \in {Body(v, w) : v \in {value1}, w \in {value2}} : TRUE

RECURSIVE GCD(_, _)
GCD(a, b) == IF b = 0 THEN a ELSE Assign(a % b, LAMBDA r : GCD(b, r))

\* n and d are products and sums of known integers.
Q(n, d) ==
    Assign(GCD(Abs(n), Abs(d)),
           LAMBDA g : IF d < 0 THEN <<(-n) \div g, (-d) \div g>>
                      ELSE <<n \div g, d \div g>>)

Zero == <<0, 1>>

One == <<1, 1>>

QAdd(a, b) ==
    Assign2(a, b,
            LAMBDA x, y :
                IF IsErr(x) \/ IsErr(y) THEN Err
                ELSE Q(x[1] * y[2] + y[1] * x[2], x[2] * y[2]))

QSub(a, b) ==
    Assign2(a, b,
            LAMBDA x, y :
                IF IsErr(x) \/ IsErr(y) THEN Err
                ELSE Q(x[1] * y[2] - y[1] * x[2], x[2] * y[2]))

QMul(a, b) ==
    Assign2(a, b,
            LAMBDA x, y :
                IF IsErr(x) \/ IsErr(y) THEN Err
                ELSE Q(x[1] * y[1], x[2] * y[2]))

\* Python float division: ZeroDivisionError when the divisor is 0.
QDiv(a, b) ==
    Assign2(a, b,
            LAMBDA x, y :
                IF IsErr(x) \/ IsErr(y) THEN Err
                ELSE IF y[1] = 0 THEN Err
                ELSE Q(x[1] * y[2], x[2] * y[1]))

QLe(a, b) == a[1] * b[2] <= b[1] * a[2]

QLt(a, b) == a[1] * b[2] < b[1] * a[2]

\* Python max(a, b): the first argument is kept unless b is greater.
QMax(a, b) == IF IsErr(a) \/ IsErr(b) THEN Err
              ELSE IF QLt(a, b) THEN b ELSE a

\* Python min(a, b): the first argument is kept unless b is smaller.
QMin(a, b) == IF IsErr(a) \/ IsErr(b) THEN Err
              ELSE IF QLt(b, a) THEN b ELSE a

RECURSIVE QSum(_)
QSum(s) ==
    Assign(s, LAMBDA v :
                  IF v = <<>> THEN Zero ELSE QAdd(Head(v), QSum(Tail(v))))

\* np.mean(scores) if scores else dflt
MeanOr(scores, dflt) ==
    Assign(scores,
           LAMBDA s : IF s = <<>> THEN dflt
                      ELSE QDiv(QSum(s), Q(Len(s), 1)))

\* Python truthiness of an Optional[float]: neither None nor 0.
Truthy(x) == IsNum(x) /\ x[1] # 0

\* The value is a number in the closed interval [0, 1].
InUnit(x) == IsNum(x) /\ QLe(Zero, x) /\ QLe(x, One)

(***************************************************************************)
(* models/material.py: Material and Requirements                           *)
(***************************************************************************)
NoString == "None"

Material0 ==
    [id |-> "m0", name |-> <<>>, category |-> "metal", composition |-> {},
     tensile_strength |-> None, yield_strength |-> None,
     elastic_modulus |-> None, density |-> None,
     melting_point |-> None, thermal_conductivity |-> None,
     electrical_conductivity |-> None, dielectric_constant |-> None,
     corrosion_resistance |-> None, chemical_stability |-> None,
     cost_per_kg |-> None, sustainability_score |-> None,
     recyclability |-> None, carbon_footprint |-> None,
     availability_score |-> None, manufacturing_complexity |-> None,
     lead_time_days |-> None, simulated_properties |-> None]

Requirements0 ==
    [min_tensile_strength |-> None, max_tensile_strength |-> None,
     min_yield_strength |-> None, max_yield_strength |-> None,
     min_elastic_modulus |-> None, max_elastic_modulus |-> None,
     min_density |-> None, max_density |-> None,
     min_operating_temp |-> None, max_operating_temp |-> None,
     min_thermal_conductivity |-> None, max_thermal_conductivity |-> None,
     min_electrical_conductivity |-> None,
     max_electrical_conductivity |-> None,
     min_dielectric_constant |-> None, max_dielectric_constant |-> None,
     min_corrosion_resistance |-> None, max_cost_per_kg |-> None,
     min_sustainability_score |-> None, max_lead_time_days |-> None,
     geographic_region |-> NoString]

(***************************************************************************)
(* services/scoring.py: MaterialScorer                                     *)
(***************************************************************************)
weights ==
    [performance |-> Q(4, 10), cost |-> Q(25, 100),
     sustainability |-> Q(2, 10), availability |-> Q(15, 100)]

score_property_range(value, min_val, max_val) ==
    IF ~IsNone(min_val) /\ ~IsNone(max_val) THEN
        IF QLe(min_val, value) /\ QLe(value, max_val) THEN One
        ELSE IF QLt(value, min_val) THEN QMax(Q(1, 10), QDiv(value, min_val))
        ELSE QMax(Q(1, 10), QDiv(max_val, value))
    ELSE IF ~IsNone(min_val) THEN
        IF QLe(min_val, value) THEN One
        ELSE QMax(Q(1, 10), QDiv(value, min_val))
    ELSE IF ~IsNone(max_val) THEN
        IF QLe(value, max_val) THEN One
        ELSE QMax(Q(1, 10), QDiv(max_val, value))
    ELSE Q(1, 2)

\* if value and (min_val or max_val): scores.append(_score_property_range(...))
RangeTerm(value, min_val, max_val) ==
    IF Truthy(value) /\ (Truthy(min_val) \/ Truthy(max_val))
    THEN <<score_property_range(value, min_val, max_val)>>
    ELSE <<>>

score_mechanical_properties(m, r) ==
    MeanOr(RangeTerm(m.tensile_strength, r.min_tensile_strength,
                     r.max_tensile_strength)
           \o RangeTerm(m.yield_strength, r.min_yield_strength,
                        r.max_yield_strength)
           \o RangeTerm(m.density, r.min_density, r.max_density)
           \o RangeTerm(m.elastic_modulus, r.min_elastic_modulus,
                        r.max_elastic_modulus),
           Zero)

safety_margin == 100

score_thermal_properties(m, r) ==
    LET mp == m.melting_point
        hi == r.max_operating_temp
        temp ==
            IF Truthy(mp) /\ (Truthy(r.min_operating_temp) \/ Truthy(hi))
            THEN (IF Truthy(hi)
                  THEN (IF QLe(QAdd(hi, Q(safety_margin, 1)), mp) THEN <<One>>
                        ELSE IF QLe(hi, mp) THEN <<Q(7, 10)>>
                        ELSE <<Q(1, 10)>>)
                  ELSE <<>>)
                 \o (IF Truthy(r.min_operating_temp) THEN <<Q(8, 10)>>
                     ELSE <<>>)
            ELSE <<>>
    IN  MeanOr(temp \o RangeTerm(m.thermal_conductivity,
                                 r.min_thermal_conductivity,
                                 r.max_thermal_conductivity),
               Zero)

score_electrical_properties(m, r) ==
    MeanOr(RangeTerm(m.electrical_conductivity,
                     r.min_electrical_conductivity,
                     r.max_electrical_conductivity)
           \o RangeTerm(m.dielectric_constant, r.min_dielectric_constant,
                        r.max_dielectric_constant),
           Zero)

score_environmental_properties(m, r) ==
    LET corr ==
            IF Truthy(m.corrosion_resistance)
               /\ Truthy(r.min_corrosion_resistance)
            THEN (IF QLe(r.min_corrosion_resistance, m.corrosion_resistance)
                  THEN <<One>>
                  ELSE <<QMax(Q(1, 10), QDiv(m.corrosion_resistance,
                                             r.min_corrosion_resistance))>>)
            ELSE <<>>
        chem ==
            IF Truthy(m.chemical_stability)
            THEN <<QDiv(m.chemical_stability, Q(10, 1))>>
            ELSE <<>>
    IN  MeanOr(corr \o chem, Zero)

\* valid_scores = [s for s in scores if s > 0]
RECURSIVE Positive(_)
Positive(s) ==
    Assign(s,
           LAMBDA v :
               IF v = <<>> THEN <<>>
               ELSE IF IsErr(Head(v)) THEN <<Err>> \o Positive(Tail(v))
               ELSE IF QLt(Zero, Head(v)) THEN <<Head(v)>> \o Positive(Tail(v))
               ELSE Positive(Tail(v)))

\* The mean of the three match scores, zeros included.
calculate_performance_score_all_three(m, r) ==
    MeanOr(<<score_mechanical_properties(m, r),
             score_thermal_properties(m, r),
             score_electrical_properties(m, r)>>,
           Q(1, 2))

calculate_performance_score(m, r) ==
    MeanOr(Positive(<<score_mechanical_properties(m, r),
                      score_thermal_properties(m, r),
                      score_electrical_properties(m, r)>>),
           Q(1, 2))

reference_cost == 100

calculate_cost_score(m, r) ==
    IF ~Truthy(m.cost_per_kg) THEN Q(1, 2)
    ELSE LET cost == m.cost_per_kg
             bound == r.max_cost_per_kg
         IN  IF Truthy(bound) THEN
                 IF QLe(cost, bound)
                 THEN QMax(Q(2, 10),
                           QSub(One, QMul(QDiv(cost, bound), Q(8, 10))))
                 ELSE QMax(Q(1, 10), QDiv(One, QDiv(cost, bound)))
             ELSE QMax(Q(3, 10),
                       QSub(One,
                            QMul(QMin(One,
                                      QDiv(cost, Q(reference_cost, 1))),
                                 Q(7, 10))))

calculate_sustainability_score(m, r) ==
    LET rating ==
            IF Truthy(m.sustainability_score)
            THEN <<QDiv(m.sustainability_score, Q(10, 1))>> ELSE <<>>
        recycle ==
            IF Truthy(m.recyclability)
            THEN <<QDiv(m.recyclability, Q(10, 1))>> ELSE <<>>
        footprint ==
            IF Truthy(m.carbon_footprint)
            THEN <<QMax(Q(1, 10),
                        QSub(One, QDiv(QSub(m.carbon_footprint, One),
                                       Q(9, 1))))>>
            ELSE <<>>
        required ==
            IF Truthy(r.min_sustainability_score)
               /\ Truthy(m.sustainability_score)
            THEN (IF QLe(r.min_sustainability_score, m.sustainability_score)
                  THEN <<One>> ELSE <<Q(3, 10)>>)
            ELSE <<>>
    IN  MeanOr(rating \o recycle \o footprint \o required, Q(1, 2))

reference_lead_time == 60

calculate_availability_score(m, r) ==
    LET market ==
            IF Truthy(m.availability_score)
            THEN <<QDiv(m.availability_score, Q(10, 1))>> ELSE <<>>
        lead_time == m.lead_time_days
        lead ==
            IF Truthy(lead_time) THEN
                IF Truthy(r.max_lead_time_days) THEN
                    IF QLe(lead_time, r.max_lead_time_days)
                    THEN <<QSub(One,
                                QMul(QDiv(lead_time, r.max_lead_time_days),
                                     Q(1, 2)))>>
                    ELSE <<Q(2, 10)>>
                ELSE <<QMax(Q(3, 10),
                            QSub(One,
                                 QMul(QDiv(lead_time,
                                           Q(reference_lead_time, 1)),
                                      Q(6, 10))))>>
            ELSE <<>>
        complexity ==
            IF Truthy(m.manufacturing_complexity)
            THEN <<QSub(One, QMul(QDiv(m.manufacturing_complexity, Q(10, 1)),
                                  Q(4, 10)))>>
            ELSE <<>>
    IN  MeanOr(market \o lead \o complexity, Q(1, 2))

\* The body of the try block: every field is a number unless a
\* sub-computation raised, in which case that field is Err.
score_material_try(m, r) ==
    Assign2(
        calculate_performance_score(m, r), calculate_cost_score(m, r),
        LAMBDA performance_score, cost_score :
            Assign2(
                calculate_sustainability_score(m, r),
                calculate_availability_score(m, r),
                LAMBDA sustainability_score, availability_score :
                    [performance_score |-> performance_score,
                     cost_score |-> cost_score,
                     sustainability_score |-> sustainability_score,
                     availability_score |-> availability_score,
                     overall_score |->
                         QAdd(QAdd(QAdd(QMul(performance_score,
                                             weights.performance),
                                        QMul(cost_score, weights.cost)),
                                   QMul(sustainability_score,
                                        weights.sustainability)),
                              QMul(availability_score,
                                   weights.availability)),
                     mechanical_match |-> score_mechanical_properties(m, r),
                     thermal_match |-> score_thermal_properties(m, r),
                     electrical_match |-> score_electrical_properties(m, r),
                     environmental_match |->
                         score_environmental_properties(m, r)]))

ScoreFields ==
    {"performance_score", "cost_score", "sustainability_score",
     "availability_score", "overall_score", "mechanical_match",
     "thermal_match", "electrical_match", "environmental_match"}

\* An exception left the try block.
Raised(body) == \E f \in ScoreFields : IsErr(body[f])

\* The except branch: "Return default low scores".
default_low_scores ==
    [performance_score |-> Q(1, 10), cost_score |-> Q(1, 10),
     sustainability_score |-> Q(1, 10), availability_score |-> Q(1, 10),
     overall_score |-> Q(1, 10), mechanical_match |-> Zero,
     thermal_match |-> Zero, electrical_match |-> Zero,
     environmental_match |-> Zero]

\* score_material without its except branch: the exception leaves the call.
score_material_no_except(m, r) == score_material_try(m, r)

score_material(m, r) ==
    Assign(score_material_try(m, r),
           LAMBDA body : IF Raised(body) THEN default_low_scores ELSE body)

(***************************************************************************)
(* Python strings that are searched are sequences of one-character         *)
(* strings; identifiers that are only compared are plain strings.          *)
(***************************************************************************)
\* str.lower(), over the letters that occur in the model's strings.
LowerChar(c) ==
    CASE c = "A" -> "a" [] c = "C" -> "c" [] c = "E" -> "e"
      [] c = "F" -> "f" [] c = "K" -> "k" [] c = "L" -> "l"
      [] c = "P" -> "p" [] c = "S" -> "s" [] c = "T" -> "t"
      [] OTHER -> c

Lower(s) == [i \in 1..Len(s) |-> LowerChar(s[i])]

\* Python's substring test: needle in hay
IsSubstring(needle, hay) ==
    \E i \in 0..(Len(hay) - Len(needle)) :
        SubSeq(hay, i + 1, i + Len(needle)) = needle

\* A slice that keeps one item more: s[:n + 1].
SliceTo_one_more(s, n) ==
    IF n + 1 >= 0 THEN SubSeq(s, 1, IF n + 1 < Len(s) THEN n + 1 ELSE Len(s))
    ELSE SubSeq(s, 1, Len(s) + n + 1)

\* Python's s[:n] for a list s and an int n (a negative n counts from the end).
SliceTo(s, n) ==
    IF n >= 0 THEN SubSeq(s, 1, IF n < Len(s) THEN n ELSE Len(s))
    ELSE SubSeq(s, 1, Len(s) + n)

\* The insertion step of an unstable sort: e goes in front of equal keys.
RECURSIVE InsertDescending_unstable(_, _)
InsertDescending_unstable(sorted, e) ==
    IF sorted = <<>> THEN <<e>>
    ELSE IF QLe(Head(sorted)[2], e[2]) THEN <<e>> \o sorted
    ELSE Assign(Tail(sorted),
                LAMBDA rest :
                    <<Head(sorted)>> \o InsertDescending_unstable(rest, e))

\* One step of a stable descending sort of <<item, key>> pairs: e goes
\* behind every pair whose key is not smaller than its own.
RECURSIVE InsertDescending(_, _)
InsertDescending(sorted, e) ==
    IF sorted = <<>> THEN <<e>>
    ELSE IF QLt(Head(sorted)[2], e[2]) THEN <<e>> \o sorted
    ELSE Assign(Tail(sorted),
                LAMBDA rest : <<Head(sorted)>> \o InsertDescending(rest, e))

RECURSIVE SortFrom(_, _)
SortFrom(sorted, rest) ==
    IF rest = <<>> THEN sorted
    ELSE Assign(InsertDescending(sorted, Head(rest)),
                LAMBDA longer :
                    Assign(Tail(rest), LAMBDA tail : SortFrom(longer, tail)))

\* sorted(pairs, key=lambda x: x[1], reverse=True) and
\* list.sort(key=..., reverse=True): Python's sort is stable, also reversed.
sort_reverse(pairs) == SortFrom(<<>>, pairs)

(***************************************************************************)
(* services/database.py: MaterialDatabase                                  *)
(***************************************************************************)
NumericFields ==
    {"tensile_strength", "yield_strength", "elastic_modulus", "density",
     "melting_point", "thermal_conductivity", "electrical_conductivity",
     "dielectric_constant", "corrosion_resistance", "chemical_stability",
     "cost_per_kg", "sustainability_score", "recyclability",
     "carbon_footprint", "availability_score", "manufacturing_complexity",
     "lead_time_days"}

\* getattr(material, field, None) is None: the attribute does not exist or
\* is an Optional field holding None (id, name, category and composition
\* are required fields and never None).
value_is_None(material, field) ==
    \/ field \notin DOMAIN material
    \/ field \in NumericFields \cup {"simulated_properties"}
       /\ IsNone(material[field])

\* The operator branches with gt written as "<" instead of "<=".
filter_rejects_gt_as_gte(operator, material_value, filter_value) ==
    CASE operator = "eq" -> material_value # filter_value
      [] operator = "gte" -> QLt(material_value, filter_value)
      [] operator = "lte" -> QLt(filter_value, material_value)
      [] operator = "gt" -> QLt(material_value, filter_value)
      [] operator = "lt" -> QLe(filter_value, material_value)
      [] operator = "in" -> material_value \notin filter_value
      [] operator = "not_in" -> material_value \in filter_value
      [] operator = "icontains" ->
             ~IsSubstring(Lower(filter_value), Lower(material_value))
      [] operator = "contains" -> filter_value \notin material_value
      [] OTHER -> FALSE

\* The operator branch of the filter loop: TRUE when the branch executes
\* "return False".
filter_rejects(operator, material_value, filter_value) ==
    CASE operator = "eq" -> material_value # filter_value
      [] operator = "gte" -> QLt(material_value, filter_value)
      [] operator = "lte" -> QLt(filter_value, material_value)
      [] operator = "gt" -> QLe(material_value, filter_value)
      [] operator = "lt" -> QLe(filter_value, material_value)
      [] operator = "in" -> material_value \notin filter_value
      [] operator = "not_in" -> material_value \in filter_value
      [] operator = "icontains" ->
             ~IsSubstring(Lower(filter_value), Lower(material_value))
      [] operator = "contains" -> filter_value \notin material_value
      [] OTHER -> FALSE

\* filters is a dict: a sequence of entries [field, operator, value] in
\* insertion order with pairwise different (field, operator) keys.
RECURSIVE material_matches_filters(_, _)
material_matches_filters(material, filters) ==
    IF filters = <<>> THEN TRUE
    ELSE LET f == Head(filters)
         IN  IF value_is_None(material, f.field)
             THEN material_matches_filters(material, Tail(filters))
             ELSE IF filter_rejects(f.operator, material[f.field], f.value)
             THEN FALSE
             ELSE material_matches_filters(material, Tail(filters))

RECURSIVE query_materials(_, _)
query_materials(catalog, filters) ==
    IF catalog = <<>> THEN <<>>
    ELSE (IF material_matches_filters(Head(catalog), filters)
          THEN <<Head(catalog)>> ELSE <<>>)
         \o query_materials(Tail(catalog), filters)

\* query_lower in material.name.lower() or any(query_lower in
\* element.lower() for element in material.composition.keys())
text_matches(material, query_lower) ==
    \/ IsSubstring(query_lower, Lower(material.name))
    \/ \E element \in material.composition :
           IsSubstring(query_lower, Lower(element))

\* The loop of search_materials_by_text from a given position: a material
\* whose text matches is appended when it passes the filters, and then,
\* still inside the text test, the loop breaks when the limit is reached.
RECURSIVE search_loop(_, _, _, _, _)
search_loop(catalog, query_lower, filters, limit, matching_materials) ==
    IF catalog = <<>> THEN matching_materials
    ELSE IF text_matches(Head(catalog), query_lower)
    THEN Assign(IF material_matches_filters(Head(catalog), filters)
                THEN Append(matching_materials, Head(catalog))
                ELSE matching_materials,
                LAMBDA appended :
                    IF Len(appended) >= limit THEN appended
                    ELSE search_loop(Tail(catalog), query_lower, filters,
                                     limit, appended))
    ELSE search_loop(Tail(catalog), query_lower, filters, limit,
                     matching_materials)

\* filters is a dict here; the default None behaves as the empty dict.
search_materials_by_text(catalog, query, filters, limit) ==
    search_loop(catalog, Lower(query), filters, limit, <<>>)

\* self.materials.get(material_id); NoMaterial stands for None.
NoMaterial == [Material0 EXCEPT !.id = NoString]

RECURSIVE get_material_by_id(_, _)
get_material_by_id(catalog, material_id) ==
    IF catalog = <<>> THEN NoMaterial
    ELSE IF Head(catalog).id = material_id THEN Head(catalog)
    ELSE get_material_by_id(Tail(catalog), material_id)

properties_to_compare ==
    <<"tensile_strength", "yield_strength", "elastic_modulus", "density",
      "thermal_conductivity", "electrical_conductivity", "cost_per_kg">>

RECURSIVE property_similarities(_, _, _)
property_similarities(props, material1, material2) ==
    IF props = <<>> THEN <<>>
    ELSE LET value1 == material1[Head(props)]
             value2 == material2[Head(props)]
             max_val == QMax(value1, value2)
             min_val == QMin(value1, value2)
         IN  (IF ~IsNone(value1) /\ ~IsNone(value2) /\ QLt(Zero, max_val)
              THEN <<QDiv(min_val, max_val)>> ELSE <<>>)
             \o property_similarities(Tail(props), material1, material2)

\* The property ratios taken relative to the second material only.
RECURSIVE one_sided_similarities(_, _, _)
one_sided_similarities(props, material1, material2) ==
    IF props = <<>> THEN <<>>
    ELSE LET value1 == material1[Head(props)]
             value2 == material2[Head(props)]
         IN  (IF ~IsNone(value1) /\ ~IsNone(value2) /\ QLt(Zero, value2)
              THEN <<QMin(One, QDiv(value1, value2))>> ELSE <<>>)
             \o one_sided_similarities(Tail(props), material1, material2)

\* A similarity that measures how far material1 reaches material2.
calculate_similarity_one_sided(material1, material2) ==
    MeanOr(one_sided_similarities(properties_to_compare, material1,
                                  material2)
           \o (IF material1.category = material2.category
               THEN <<One>> ELSE <<Q(3, 10)>>),
           Zero)

calculate_similarity(material1, material2) ==
    MeanOr(property_similarities(properties_to_compare, material1, material2)
           \o (IF material1.category = material2.category
               THEN <<One>> ELSE <<Q(3, 10)>>),
           Zero)

\* The similarity loop without the "continue" for the reference material.
RECURSIVE similar_pairs_with_reference(_, _, _)
similar_pairs_with_reference(catalog, reference_material, similarity_threshold) ==
    IF catalog = <<>> THEN <<>>
    ELSE LET material == Head(catalog)
             similarity == calculate_similarity(reference_material, material)
         IN  (IF QLe(similarity_threshold, similarity)
              THEN <<<<material, similarity>>>> ELSE <<>>)
             \o similar_pairs_with_reference(Tail(catalog),
                                             reference_material,
                                             similarity_threshold)

RECURSIVE similar_pairs(_, _, _)
similar_pairs(catalog, reference_material, similarity_threshold) ==
    IF catalog = <<>> THEN <<>>
    ELSE LET material == Head(catalog)
             similarity == calculate_similarity(reference_material, material)
         IN  (IF material.id # reference_material.id
                 /\ QLe(similarity_threshold, similarity)
              THEN <<<<material, similarity>>>> ELSE <<>>)
             \o similar_pairs(Tail(catalog), reference_material,
                              similarity_threshold)

Items(pairs) == [i \in 1..Len(pairs) |-> pairs[i][1]]

find_similar_materials(catalog, reference_material, similarity_threshold, max_results) ==
    Items(SliceTo(sort_reverse(similar_pairs(catalog, reference_material,
                                             similarity_threshold)),
                  max_results))

\* getattr(supplier, field, None) is None: every field of Supplier is
\* required, so only a field that does not exist gives None.
supplier_value_is_None(supplier, field) == field \notin DOMAIN supplier

\* The operator branch of the supplier filter loop: TRUE when the branch
\* executes "return False". The if/elif chain has five branches; any
\* other operator falls through it. str(supplier_value) of a str field is
\* the field itself.
supplier_filter_rejects(operator, supplier_value, filter_value) ==
    CASE operator = "eq" -> supplier_value # filter_value
      [] operator = "gte" -> QLt(supplier_value, filter_value)
      [] operator = "lte" -> QLt(filter_value, supplier_value)
      [] operator = "icontains" ->
             ~IsSubstring(Lower(filter_value), Lower(supplier_value))
      [] operator = "contains" -> filter_value \notin supplier_value
      [] OTHER -> FALSE

RECURSIVE supplier_matches_filters(_, _)
supplier_matches_filters(supplier, filters) ==
    IF filters = <<>> THEN TRUE
    ELSE LET f == Head(filters)
         IN  IF supplier_value_is_None(supplier, f.field)
             THEN supplier_matches_filters(supplier, Tail(filters))
             ELSE IF supplier_filter_rejects(f.operator, supplier[f.field],
                                             f.value)
             THEN FALSE
             ELSE supplier_matches_filters(supplier, Tail(filters))

\* suppliers is the dict self.suppliers in insertion order.
RECURSIVE query_suppliers(_, _)
query_suppliers(suppliers, filters) ==
    IF suppliers = <<>> THEN <<>>
    ELSE (IF supplier_matches_filters(Head(suppliers), filters)
          THEN <<Head(suppliers)>> ELSE <<>>)
         \o query_suppliers(Tail(suppliers), filters)

(***************************************************************************)
(* services/recommender.py: MaterialRecommender                            *)
(***************************************************************************)
\* The alternatives search with a threshold of 0.5.
find_alternatives_threshold_half(catalog, material_id, requirements) ==
    IF get_material_by_id(catalog, material_id) = NoMaterial THEN <<>>
    ELSE find_similar_materials(catalog,
                                get_material_by_id(catalog, material_id),
                                Q(1, 2), 10)

\* requirements is not read.
find_alternatives(catalog, material_id, requirements) ==
    IF get_material_by_id(catalog, material_id) = NoMaterial THEN <<>>
    ELSE find_similar_materials(catalog,
                                get_material_by_id(catalog, material_id),
                                Q(7, 10), 10)

\* MaterialRecommender.search_materials: category is a str or NoString
\* (None); "if category" holds for a non-empty str.
search_materials(catalog, query, category, limit) ==
    search_materials_by_text(
        catalog, query,
        IF category # NoString /\ category # ""
        THEN <<[field |-> "category", operator |-> "eq", value |-> category]>>
        ELSE <<>>,
        limit)

\* MaterialRecommender.get_suppliers: region is a str, empty for None or
\* ''; min_quantity is an int or None.
get_suppliers(suppliers, material_id, region, min_quantity) ==
    query_suppliers(
        suppliers,
        <<[field |-> "materials", operator |-> "contains",
           value |-> material_id]>>
        \o (IF region # <<>>
            THEN <<[field |-> "location", operator |-> "icontains",
                    value |-> region]>>
            ELSE <<>>)
        \o (IF Truthy(min_quantity)
            THEN <<[field |-> "minimum_order", operator |-> "lte",
                    value |-> min_quantity]>>
            ELSE <<>>))

\* timedelta(hours=1); the model clock counts half hours.
cache_ttl == 2

\* filters[key] = value on a Python dict: an existing key keeps its place.
RECURSIVE DictSet(_, _, _, _)
DictSet(filters, field, operator, value) ==
    IF filters = <<>>
    THEN <<[field |-> field, operator |-> operator, value |-> value]>>
    ELSE IF Head(filters).field = field /\ Head(filters).operator = operator
    THEN <<[field |-> field, operator |-> operator, value |-> value]>>
         \o Tail(filters)
    ELSE <<Head(filters)>> \o DictSet(Tail(filters), field, operator, value)

SetIf(cond, filters, field, operator, value) ==
    IF cond THEN DictSet(filters, field, operator, value) ELSE filters

\* The filters dict with the two temperature bounds stored under
\* different keys, so that both predicates are kept.
build_filters_both_margins(query) ==
    LET req == query.requirements
        f1 == SetIf(query.preferred_categories # {}, <<>>,
                    "category", "in", query.preferred_categories)
        f2 == SetIf(query.exclude_categories # {}, f1,
                    "category", "not_in", query.exclude_categories)
        f3 == SetIf(Truthy(req.min_tensile_strength), f2,
                    "tensile_strength", "gte", req.min_tensile_strength)
        f4 == SetIf(Truthy(req.max_tensile_strength), f3,
                    "tensile_strength", "lte", req.max_tensile_strength)
        f5 == SetIf(Truthy(req.min_density), f4,
                    "density", "gte", req.min_density)
        f6 == SetIf(Truthy(req.max_density), f5,
                    "density", "lte", req.max_density)
        f7 == SetIf(Truthy(req.min_operating_temp), f6,
                    "melting_point", "gte",
                    QAdd(req.min_operating_temp, Q(50, 1)))
        f8 == IF Truthy(req.max_operating_temp)
              THEN f7 \o <<[field |-> "melting_point", operator |-> "gte",
                            value |-> QAdd(req.max_operating_temp,
                                           Q(100, 1))]>>
              ELSE f7
        f9 == SetIf(Truthy(req.max_cost_per_kg), f8,
                    "cost_per_kg", "lte", req.max_cost_per_kg)
        f10 == SetIf(Truthy(req.min_sustainability_score), f9,
                     "sustainability_score", "gte",
                     req.min_sustainability_score)
        f11 == SetIf(Truthy(req.max_lead_time_days), f10,
                     "lead_time_days", "lte", req.max_lead_time_days)
        f12 == SetIf(req.geographic_region # NoString
                     /\ req.geographic_region # "", f11,
                     "geographic_region", "eq", req.geographic_region)
    IN  f12

\* The filters dict built by _find_candidate_materials.  The category lists
\* are sets; the empty set stands for None and for the empty list.
build_filters(query) ==
    LET req == query.requirements
        f1 == SetIf(query.preferred_categories # {}, <<>>,
                    "category", "in", query.preferred_categories)
        f2 == SetIf(query.exclude_categories # {}, f1,
                    "category", "not_in", query.exclude_categories)
        f3 == SetIf(Truthy(req.min_tensile_strength), f2,
                    "tensile_strength", "gte", req.min_tensile_strength)
        f4 == SetIf(Truthy(req.max_tensile_strength), f3,
                    "tensile_strength", "lte", req.max_tensile_strength)
        f5 == SetIf(Truthy(req.min_density), f4,
                    "density", "gte", req.min_density)
        f6 == SetIf(Truthy(req.max_density), f5,
                    "density", "lte", req.max_density)
        f7 == SetIf(Truthy(req.min_operating_temp), f6,
                    "melting_point", "gte",
                    QAdd(req.min_operating_temp, Q(50, 1)))
        f8 == SetIf(Truthy(req.max_operating_temp), f7,
                    "melting_point", "gte",
                    QAdd(req.max_operating_temp, Q(100, 1)))
        f9 == SetIf(Truthy(req.max_cost_per_kg), f8,
                    "cost_per_kg", "lte", req.max_cost_per_kg)
        f10 == SetIf(Truthy(req.min_sustainability_score), f9,
                     "sustainability_score", "gte",
                     req.min_sustainability_score)
        f11 == SetIf(Truthy(req.max_lead_time_days), f10,
                     "lead_time_days", "lte", req.max_lead_time_days)
        f12 == SetIf(req.geographic_region # NoString
                     /\ req.geographic_region # "", f11,
                     "geographic_region", "eq", req.geographic_region)
    IN  f12

find_candidate_materials(query, catalog) ==
    query_materials(catalog, build_filters(query))

\* md5 of str(query.dict()): a function of the query's content only; the
\* digest is represented by the serialized content it is computed from.
generate_cache_key(query) == <<"md5", query>>

\* The scoring loop without the minimum threshold.
RECURSIVE score_candidates_no_threshold(_, _)
score_candidates_no_threshold(candidates, requirements) ==
    IF candidates = <<>> THEN <<>>
    ELSE Assign(score_material(Head(candidates), requirements),
                LAMBDA score :
                    <<<<<<Head(candidates), score>>, score.overall_score>>>>
                    \o Assign(Tail(candidates),
                              LAMBDA rest :
                                  score_candidates_no_threshold(
                                      rest, requirements)))

\* The scoring loop with a threshold that 0.1 itself does not reach.
RECURSIVE score_candidates_above_threshold(_, _)
score_candidates_above_threshold(candidates, requirements) ==
    IF candidates = <<>> THEN <<>>
    ELSE Assign(score_material(Head(candidates), requirements),
                LAMBDA score :
                    (IF QLt(Q(1, 10), score.overall_score)
                     THEN <<<<<<Head(candidates), score>>,
                              score.overall_score>>>>
                     ELSE <<>>)
                    \o Assign(Tail(candidates),
                              LAMBDA rest :
                                  score_candidates_above_threshold(
                                      rest, requirements)))

\* The scoring loop: <<<<material, score>>, overall_score>> for every
\* candidate that reaches the minimum threshold.
RECURSIVE score_candidates(_, _)
score_candidates(candidates, requirements) ==
    IF candidates = <<>> THEN <<>>
    ELSE Assign(score_material(Head(candidates), requirements),
                LAMBDA score :
                    (IF QLe(Q(1, 10), score.overall_score)
                     THEN <<<<<<Head(candidates), score>>,
                              score.overall_score>>>>
                     ELSE <<>>)
                    \o Assign(Tail(candidates),
                              LAMBDA rest :
                                  score_candidates(rest, requirements)))

\* max(scores, key=...): the first score whose key is maximal.
RECURSIVE MaxBy(_, _, _)
MaxBy(scores, field, best) ==
    IF scores = <<>> THEN best
    ELSE Assign(IF QLt(best[field], Head(scores)[field])
                THEN Head(scores) ELSE best,
                LAMBDA better :
                    Assign(Tail(scores),
                           LAMBDA tail : MaxBy(tail, field, better)))

\* list.index(x): the first position holding a value equal to x.
IndexOf(s, x) == CHOOSE i \in 1..Len(s) :
                     s[i] = x /\ \A j \in 1..(i - 1) : s[j] # x

\* The most cost-effective material taken to be the top-ranked one.
find_most_cost_effective_top_ranked(final_materials, final_scores) ==
    IF final_materials = <<>> THEN NoString ELSE final_materials[1].id

find_most_cost_effective(final_materials, final_scores) ==
    IF final_materials = <<>> THEN NoString
    ELSE final_materials[
             IndexOf(final_scores,
                     MaxBy(final_scores, "cost_score", Head(final_scores)))].id

find_most_sustainable(final_materials, final_scores) ==
    IF final_materials = <<>> THEN NoString
    ELSE final_materials[
             IndexOf(final_scores,
                     MaxBy(final_scores, "sustainability_score",
                           Head(final_scores)))].id

\* Lines 40-76 of recommend: the result computed on a cache miss.
\* np.std(score_values): the population standard deviation, kept as its
\* square.  The squared deviations are summed over a common denominator.
RECURSIVE SumOfSquares(_, _)
SumOfSquares(values, mean) ==
    IF values = <<>> THEN Zero
    ELSE Assign(QSub(Head(values), mean),
                LAMBDA dev :
                    Assign(SumOfSquares(Tail(values), mean),
                           LAMBDA rest :
                               Assign(GCD(dev[2] * dev[2], rest[2]),
                                      LAMBDA g :
                                          Q(dev[1] * dev[1] * (rest[2] \div g)
                                            + rest[1]
                                              * ((dev[2] * dev[2]) \div g),
                                            (dev[2] * dev[2]) * (rest[2] \div g)))))

std_squared(score_values) ==
    Assign(MeanOr(score_values, Zero),
           LAMBDA mean :
               QDiv(SumOfSquares(score_values, mean),
                    Q(Len(score_values), 1)))

\* A confidence value base + 2 * sqrt(std_squared).
Confidence(base, variance) == [base |-> base, std_squared |-> variance]

\* The confidence with the deviation added once: 0.5 + score_std.
calculate_confidence_std_once(scores) ==
    IF scores = <<>> THEN Confidence(Zero, Zero)
    ELSE Assign(IF Len(scores) > 1
                THEN std_squared([i \in 1..Len(scores) |->
                                     scores[i].overall_score])
                ELSE Zero,
                LAMBDA variance :
                    IF QLt(variance, Q(1, 4))
                    THEN Confidence(Q(1, 2), QDiv(variance, Q(4, 1)))
                    ELSE Confidence(One, Zero))

\* min(1.0, 0.5 + score_std * 2): 1.0 when 2 * score_std >= 0.5, that is
\* when the squared deviation is at least 1/16.
calculate_confidence(scores) ==
    IF scores = <<>> THEN Confidence(Zero, Zero)
    ELSE Assign(IF Len(scores) > 1
                THEN std_squared([i \in 1..Len(scores) |->
                                     scores[i].overall_score])
                ELSE Zero,
                LAMBDA variance :
                    IF QLt(variance, Q(1, 16))
                    THEN Confidence(Q(1, 2), variance)
                    ELSE Confidence(One, Zero))

\* The result with the scores taken in scoring order, not in rank order.
final_result_scores_unsorted(query, scored, final) ==
    Assign2([i \in 1..Len(final) |-> final[i][1]],
            [i \in 1..Len(final) |-> scored[i][1][2]],
            LAMBDA final_materials, final_scores :
                [materials |-> final_materials,
                 scores |-> final_scores,
                 total_results |-> Len(scored),
                 processing_time_ms |-> 0,
                 best_performance |->
                     IF final_materials # <<>> THEN final_materials[1].id
                     ELSE NoString,
                 most_cost_effective |->
                     find_most_cost_effective(final_materials, final_scores),
                 most_sustainable |->
                     find_most_sustainable(final_materials, final_scores),
                 confidence_level |-> calculate_confidence(final_scores),
                 simulation_used |-> query.enable_simulation])

final_result(query, scored, final) ==
    Assign2([i \in 1..Len(final) |-> final[i][1]],
            [i \in 1..Len(final) |-> final[i][2]],
            LAMBDA final_materials, final_scores :
                [materials |-> final_materials,
                 scores |-> final_scores,
                 total_results |-> Len(scored),
                 processing_time_ms |-> 0,
                 best_performance |->
                     IF final_materials # <<>> THEN final_materials[1].id
                     ELSE NoString,
                 most_cost_effective |->
                     find_most_cost_effective(final_materials, final_scores),
                 most_sustainable |->
                     find_most_sustainable(final_materials, final_scores),
                 confidence_level |-> calculate_confidence(final_scores),
                 simulation_used |-> query.enable_simulation])

compute_result(query, catalog) ==
    Assign(score_candidates(find_candidate_materials(query, catalog),
                            query.requirements),
           LAMBDA scored :
               Assign(SliceTo(Items(sort_reverse(scored)), query.max_results),
                      LAMBDA final : final_result(query, scored, final)))

\* A cache write that keeps an entry the key already has.
CachePut_keep_first(c, key, result, timestamp) ==
    [k \in DOMAIN c \cup {key} |->
        IF k \in DOMAIN c THEN c[k]
        ELSE [result |-> result, timestamp |-> timestamp]]

\* A cache write that evicts the entries that are stale at the write.
CachePut_evicts_stale(c, key, result, timestamp) ==
    [k \in {j \in DOMAIN c : timestamp - c[j].timestamp < cache_ttl}
               \cup {key} |->
        IF k = key THEN [result |-> result, timestamp |-> timestamp]
        ELSE c[k]]

\* self.cache[cache_key] = (result, timestamp)
CachePut(c, key, result, timestamp) ==
    [k \in DOMAIN c \cup {key} |->
        IF k = key THEN [result |-> result, timestamp |-> timestamp]
        ELSE c[k]]

\* recommend that never looks at the cache.
recommend_ignores_cache(query, c, t, catalog) ==
    Assign(compute_result(query, catalog),
           LAMBDA result :
               [result |-> result,
                cache |-> CachePut(c, generate_cache_key(query), result, t),
                db_queries |-> 1,
                scored |-> Len(find_candidate_materials(query, catalog))])

\* recommend that treats an entry of age exactly cache_ttl as fresh.
recommend_ttl_inclusive(query, c, t, catalog) ==
    LET cache_key == generate_cache_key(query)
    IN  IF cache_key \in DOMAIN c /\ t - c[cache_key].timestamp <= cache_ttl
        THEN [result |-> c[cache_key].result, cache |-> c,
              db_queries |-> 0, scored |-> 0]
        ELSE Assign(compute_result(query, catalog),
                    LAMBDA result :
                        [result |-> result,
                         cache |-> CachePut(c, cache_key, result, t),
                         db_queries |-> 1,
                         scored |->
                             Len(find_candidate_materials(query, catalog))])

\* recommend(query) called at time t with cache c: the returned result, the
\* cache it leaves, and how many catalog queries and score_material calls
\* it made.
recommend(query, c, t, catalog) ==
    LET cache_key == generate_cache_key(query)
    IN  IF cache_key \in DOMAIN c /\ t - c[cache_key].timestamp < cache_ttl
        THEN [result |-> c[cache_key].result, cache |-> c,
              db_queries |-> 0, scored |-> 0]
        ELSE Assign(compute_result(query, catalog),
                    LAMBDA result :
                        [result |-> result,
                         cache |-> CachePut(c, cache_key, result, t),
                         db_queries |-> 1,
                         scored |->
                             Len(find_candidate_materials(query, catalog))])

\* Where an exception can leave recommend after the cache check: the
\* awaited catalog query, or the construction of the RecommendationResult.
RaisePoints == {"catalog_query", "result_construction"}

\* A failing recommend that stores an entry for the key before it computes.
recommend_raising_writes_first(query, c, t, catalog, raises_at) ==
    LET cache_key == generate_cache_key(query)
    IN  IF cache_key \in DOMAIN c /\ t - c[cache_key].timestamp < cache_ttl
        THEN [raised |-> FALSE, cache |-> c, db_queries |-> 0, scored |-> 0]
        ELSE [raised |-> TRUE,
              cache |-> CachePut(c, cache_key, <<>>, t),
              db_queries |-> 1,
              scored |-> IF raises_at = "catalog_query" THEN 0
                         ELSE Len(find_candidate_materials(query, catalog))]

\* recommend(query) called at time t with cache c when an exception is
\* raised at raises_at: a fresh entry is returned before anything can
\* raise; otherwise no statement up to the raise assigns to self.cache and
\* there is no try block, so the exception leaves the call.
recommend_raising(query, c, t, catalog, raises_at) ==
    LET cache_key == generate_cache_key(query)
    IN  IF cache_key \in DOMAIN c /\ t - c[cache_key].timestamp < cache_ttl
        THEN [raised |-> FALSE, cache |-> c, db_queries |-> 0, scored |-> 0]
        ELSE [raised |-> TRUE,
              cache |-> c,
              db_queries |-> 1,
              scored |-> IF raises_at = "catalog_query" THEN 0
                         ELSE Len(find_candidate_materials(query, catalog))]

(***************************************************************************)
(* main.py: the /recommend endpoint                                        *)
(***************************************************************************)
\* The simulation loop writing through to the catalog's own Material
\* objects of the same ids.
simulate_recommendations_shared(catalog, recommendations, simulated) ==
    [catalog |->
         [j \in 1..Len(catalog) |->
             IF \E i \in 1..Len(recommendations.materials) :
                    recommendations.materials[i].id = catalog[j].id
             THEN [catalog[j] EXCEPT !.simulated_properties =
                      simulated[CHOOSE i \in 1..Len(recommendations.materials) :
                                    recommendations.materials[i].id
                                        = catalog[j].id]]
             ELSE catalog[j]],
     recommendations |->
         [recommendations EXCEPT !.materials =
             [i \in 1..Len(recommendations.materials) |->
                 [recommendations.materials[i]
                     EXCEPT !.simulated_properties = simulated[i]]]]]

\* The loop "for material in recommendations.materials:
\* material.simulated_properties = ...", simulated[i] being what
\* simulate_properties returned for the i-th material. The materials of a
\* RecommendationResult are objects of their own: validation of its
\* List[Material] field copies every Material it is given (pydantic 1.x
\* BaseModel.validate). The assignment therefore changes the result, which
\* is the object the cache holds, and no catalog object.
simulate_recommendations(catalog, recommendations, simulated) ==
    [catalog |-> catalog,
     recommendations |->
         [recommendations EXCEPT !.materials =
             [i \in 1..Len(recommendations.materials) |->
                 [recommendations.materials[i]
                     EXCEPT !.simulated_properties = simulated[i]]]]]

(***************************************************************************)
(* services/simulation.py: PropertySimulator.analyze_tradeoffs             *)
(***************************************************************************)
strength_word == <<"s", "t", "r", "e", "n", "g", "t", "h">>

cost_word == <<"c", "o", "s", "t">>

density_word == <<"d", "e", "n", "s", "i", "t", "y">>

sustainability_word ==
    <<"s", "u", "s", "t", "a", "i", "n", "a", "b", "i", "l", "i", "t", "y">>

\* The values np.random.uniform(low, high) can return for a criterion, as
\* two sample points of the half-open interval [low, high): a low one and
\* a high one.
uniform_samples(criterion) ==
    IF IsSubstring(strength_word, Lower(criterion))
    THEN <<Q(200, 1), Q(999, 1)>>
    ELSE IF IsSubstring(cost_word, Lower(criterion))
    THEN <<Q(5, 1), Q(150, 1)>>
    ELSE IF IsSubstring(density_word, Lower(criterion))
    THEN <<Q(1, 1), Q(9, 1)>>
    ELSE IF IsSubstring(sustainability_word, Lower(criterion))
    THEN <<Q(3, 1), Q(9, 1)>>
    ELSE <<Q(0, 1), Q(50, 1)>>

\* The draws an analysis can make: for every material and criterion
\* position, which of the criterion's sample points the generator returns.
Draws(material_ids, criteria) ==
    [(1..Len(material_ids)) \X (1..Len(criteria)) -> 1..2]

\* criteria_values[criterion] after the inner loop: a repeated criterion
\* keeps the value drawn last.
criteria_value(criteria, draws, i, criterion) ==
    LET j == CHOOSE j \in 1..Len(criteria) :
                 /\ criteria[j] = criterion
                 /\ \A k \in (j + 1)..Len(criteria) : criteria[k] # criterion
    IN  uniform_samples(criterion)[draws[<<i, j>>]]

\* The keys of the criteria dicts in insertion order.
RECURSIVE DictKeys(_, _)
DictKeys(criteria, seen) ==
    IF criteria = <<>> THEN <<>>
    ELSE IF Head(criteria) \in seen THEN DictKeys(Tail(criteria), seen)
    ELSE <<Head(criteria)>>
         \o DictKeys(Tail(criteria), seen \cup {Head(criteria)})

material_comparison(material_ids, criteria, draws, i) ==
    LET keys == DictKeys(criteria, {})
        criteria_values ==
            [k \in 1..Len(keys) |->
                criteria_value(criteria, draws, i, keys[k])]
        normalized_scores ==
            [k \in 1..Len(keys) |->
                QMin(One, QDiv(criteria_values[k], Q(100, 1)))]
    IN  [material_id |-> material_ids[i],
         criteria_values |-> criteria_values,
         normalized_scores |-> normalized_scores,
         weighted_score |-> MeanOr(normalized_scores, None),
         rank |-> i]

\* The sort without the loop that updates the ranks.
rank_materials_not_updated(comparisons) ==
    Items(sort_reverse([i \in 1..Len(comparisons) |->
                           <<comparisons[i], comparisons[i].weighted_score>>]))

\* materials.sort(key=lambda m: m.weighted_score, reverse=True) followed by
\* the loop that sets material.rank = i + 1.
rank_materials(comparisons) ==
    LET sorted == Items(sort_reverse(
                      [i \in 1..Len(comparisons) |->
                          <<comparisons[i], comparisons[i].weighted_score>>]))
    IN  [i \in 1..Len(sorted) |-> [sorted[i] EXCEPT !.rank = i]]

\* analyze_tradeoffs for one outcome of the random draws.  With an empty
\* criteria list and at least one material the summary's max() over the
\* empty criteria_values raises ValueError, which the handler re-raises.
analyze_tradeoffs(material_ids, criteria, draws) ==
    IF criteria = <<>> /\ material_ids # <<>>
    THEN [raised |-> TRUE, materials |-> <<>>, criteria |-> <<>>,
          best_overall |-> "", pareto_optimal |-> <<>>]
    ELSE LET ranked ==
                 rank_materials(
                     [i \in 1..Len(material_ids) |->
                         material_comparison(material_ids, criteria, draws, i)])
             top == SliceTo(ranked, 3)
         IN  [raised |-> FALSE,
              materials |-> ranked,
              criteria |->
                  [j \in 1..Len(criteria) |->
                      [name |-> criteria[j],
                       weight |-> QDiv(One, Q(Len(criteria), 1))]],
              best_overall |->
                  IF ranked # <<>> THEN ranked[1].material_id ELSE "",
              pareto_optimal |->
                  [i \in 1..Len(top) |-> top[i].material_id]]

(***************************************************************************)
(* Bounds and input sets                                                   *)
(***************************************************************************)
CatalogSize == 3

MaxTime == 3

MaxResultsBound == 2

MaxIds == 4

\* Catalog entries in the shape of database.py's sample data, with small
\* numbers: two steels that differ in id and name only, a polymer, a
\* ceramic with unknown strength and cost, and a cheap light metal.
steel_a ==
    [Material0 EXCEPT !.id = "steel_a", !.name = <<"S", "t", "e", "e", "l">>,
        !.category = "metal", !.composition = {<<"F", "e">>, <<"C", "r">>},
        !.tensile_strength = Q(600, 1), !.yield_strength = Q(300, 1),
        !.density = Q(8, 1), !.melting_point = Q(1400, 1),
        !.cost_per_kg = Q(8, 1), !.sustainability_score = Q(13, 2),
        !.availability_score = Q(9, 1), !.lead_time_days = Q(14, 1)]

steel_b ==
    [steel_a EXCEPT !.id = "steel_b", !.name = <<"S", "T", "E", "E", "L">>]

peek ==
    [Material0 EXCEPT !.id = "peek", !.name = <<"P", "E", "E", "K">>,
        !.category = "polymer", !.composition = {<<"C">>},
        !.tensile_strength = Q(100, 1), !.density = Q(1, 1),
        !.melting_point = Q(343, 1), !.cost_per_kg = Q(80, 1),
        !.sustainability_score = Q(4, 1), !.carbon_footprint = Q(11, 2)]

alumina ==
    [Material0 EXCEPT !.id = "alumina", !.name = <<"A", "l", "O">>,
        !.category = "ceramic", !.composition = {<<"A", "l">>, <<"O">>},
        !.density = Q(4, 1), !.melting_point = Q(2000, 1),
        !.recyclability = Q(3, 1)]

aluminum ==
    [Material0 EXCEPT !.id = "aluminum", !.name = <<"A", "l", "u">>,
        !.category = "metal", !.composition = {<<"A", "l">>},
        !.tensile_strength = Q(400, 1), !.density = Q(2, 1),
        !.melting_point = Q(650, 1), !.cost_per_kg = Q(2, 1),
        !.manufacturing_complexity = Q(3, 1)]

SampleMaterials == {steel_a, steel_b, peek, alumina, aluminum}

\* A metal that melts near room temperature.
gallium ==
    [Material0 EXCEPT !.id = "gallium", !.name = <<"G", "a">>,
        !.category = "metal", !.composition = {<<"G", "a">>},
        !.density = Q(6, 1), !.melting_point = Q(30, 1)]

\* The catalog dict: materials in insertion order, keyed by distinct ids.
Catalogs ==
    {c \in [1..CatalogSize -> SampleMaterials] :
        \A i, j \in 1..CatalogSize : i # j => c[i].id # c[j].id}

\* A cheap material of poor strength, sustainability and availability.
scrap ==
    [Material0 EXCEPT !.id = "scrap", !.name = <<"S", "c", "r", "a", "p">>,
        !.category = "composite", !.composition = {<<"F", "e">>},
        !.yield_strength = Q(10, 1), !.cost_per_kg = Q(10, 1),
        !.sustainability_score = Q(1, 10),
        !.availability_score = Q(1, 10)]

\* A record that Material's validation accepts and whose tensile strength
\* is below zero.
negative_strength ==
    [Material0 EXCEPT !.id = "negative", !.tensile_strength = Q(-1, 1),
        !.cost_per_kg = Q(1, 1)]

\* The catalogs of the first recommendation: the sample catalogs, and
\* catalogs that hold the poor material.
RankCatalogs ==
    Catalogs
    \cup {[i \in 1..CatalogSize |->
              IF i = k THEN scrap ELSE IF i < k THEN c[i] ELSE c[i - 1]] :
             k \in 1..2, c \in {<<steel_a, steel_b, aluminum, peek>>,
                                <<aluminum, steel_b, steel_a, alumina>>}}
    \cup {[i \in 1..CatalogSize |->
              IF i = k THEN negative_strength
              ELSE IF i < k THEN c[i] ELSE c[i - 1]] :
             k \in 1..2, c \in {<<aluminum, steel_a, peek, alumina>>}}

\* Catalogs that hold the low-melting metal.
ThermalCatalogs ==
    {[i \in 1..CatalogSize |->
         IF i = k THEN gallium ELSE IF i < k THEN c[i] ELSE c[i - 1]] :
        k \in 1..2, c \in {<<steel_a, peek, aluminum, alumina>>,
                           <<aluminum, alumina, peek, steel_b>>}}

\* The suppliers of database.py's sample data, with short strings.
sample_suppliers ==
    <<[id |-> "supplier_1", name |-> <<"A", "d", "v">>,
       location |-> <<"M", "I", ",", " ", "U", "S", "A">>,
       contact_info |-> [email |-> <<"s", "@", "a">>],
       materials |-> {"steel_a", "aluminum", "titanium"},
       price_range |-> [min |-> Q(5, 1), max |-> Q(40, 1)],
       minimum_order |-> Q(100, 1), lead_time_days |-> Q(14, 1),
       quality_rating |-> Q(46, 5), certifications |-> {"ISO", "AS"}],
      [id |-> "supplier_2", name |-> <<"P", "o", "l">>,
       location |-> <<"C", "h", "i", "n", "a">>,
       contact_info |-> [email |-> <<"i", "@", "p">>],
       materials |-> {"peek", "nylon"},
       price_range |-> [min |-> Q(3, 1), max |-> Q(90, 1)],
       minimum_order |-> Q(25, 1), lead_time_days |-> Q(28, 1),
       quality_rating |-> Q(87, 10), certifications |-> {"ISO", "FDA"}],
      [id |-> "supplier_3", name |-> <<"C", "e", "r">>,
       location |-> <<"G", "e", "r", "m", "a", "n", "y">>,
       contact_info |-> [email |-> <<"s", "@", "c">>],
       materials |-> {"alumina"},
       price_range |-> [min |-> Q(10, 1), max |-> Q(25, 1)],
       minimum_order |-> Q(10, 1), lead_time_days |-> Q(35, 1),
       quality_rating |-> Q(19, 2), certifications |-> {"ISO", "CE"}]>>

\* The catalogs of the long-running service: the two steels first, in
\* either order, then other sample materials in the order listed here.
ServiceCatalogs ==
    LET order == <<peek, alumina, aluminum>>
        Position(m) == CHOOSE i \in 1..Len(order) : order[i] = m
    IN  {c \in Catalogs :
            /\ {c[1], c[2]} = {steel_a, steel_b}
            /\ \A i, j \in 3..CatalogSize :
                   i < j => Position(c[i]) < Position(c[j])}

\* A material with every scored property known.
full_material ==
    [steel_a EXCEPT !.id = "full", !.elastic_modulus = Q(200, 1),
        !.thermal_conductivity = Q(16, 1),
        !.electrical_conductivity = Q(145, 1),
        !.dielectric_constant = Q(3, 1), !.corrosion_resistance = Q(9, 1),
        !.chemical_stability = Q(8, 1), !.recyclability = Q(9, 1),
        !.carbon_footprint = Q(16, 5),
        !.manufacturing_complexity = Q(4, 1)]

ScoreMaterials ==
    {[Material0 EXCEPT !.tensile_strength = ts, !.cost_per_kg = c,
         !.carbon_footprint = cf, !.availability_score = av,
         !.melting_point = mp, !.lead_time_days = lt] :
        ts \in {None, Q(500, 1)},
        c \in {None, Q(1, 1), Q(20, 1)},
        cf \in {None, Q(1, 10), Q(5, 1)},
        av \in {None, Q(10, 1)},
        mp \in {None, Q(150, 1)},
        lt \in {None, Q(14, 1)}}
    \cup SampleMaterials \cup {full_material, negative_strength}

full_requirements ==
    [Requirements0 EXCEPT !.min_tensile_strength = Q(800, 1),
        !.max_yield_strength = Q(200, 1), !.min_elastic_modulus = Q(100, 1),
        !.max_elastic_modulus = Q(300, 1), !.min_density = Q(10, 1),
        !.min_operating_temp = Q(-40, 1), !.max_operating_temp = Q(1350, 1),
        !.min_thermal_conductivity = Q(20, 1),
        !.max_electrical_conductivity = Q(100, 1),
        !.min_dielectric_constant = Q(2, 1),
        !.min_corrosion_resistance = Q(10, 1), !.max_cost_per_kg = Q(5, 1),
        !.min_sustainability_score = Q(7, 1),
        !.max_lead_time_days = Q(10, 1)]

ScoreRequirements ==
    {[Requirements0 EXCEPT !.min_tensile_strength = lo,
         !.max_tensile_strength = hi, !.max_cost_per_kg = b,
         !.max_operating_temp = t, !.min_operating_temp = u] :
        lo \in {None, Zero, Q(400, 1)},
        hi \in {None, Q(600, 1)},
        b \in {None, Zero, Q(10, 1), Q(100, 1)},
        t \in {None, Q(100, 1)},
        u \in {None, Q(20, 1)}}
    \cup {full_requirements,
          [full_requirements EXCEPT !.max_lead_time_days = Q(30, 1),
              !.min_sustainability_score = Q(6, 1),
              !.min_corrosion_resistance = Q(5, 1)]}
    \cup {[Requirements0 EXCEPT !.max_operating_temp = t,
              !.min_operating_temp = u] :
             t \in {None, Zero, Q(100, 1), Q(400, 1)},
             u \in {None, Zero, Q(-40, 1)}}

Query0 ==
    [requirements |-> Requirements0, preferred_categories |-> {},
     exclude_categories |-> {}, max_results |-> 20,
     enable_simulation |-> TRUE]

\* Queries of the first recommend call after construction.
RankQueries ==
    {[Query0 EXCEPT !.requirements.max_cost_per_kg = b,
         !.requirements.min_tensile_strength = lo,
         !.preferred_categories = cats, !.max_results = n] :
        b \in {None, Zero, Q(1, 1), Q(10, 1)},
        lo \in {None, Q(500, 1)},
        cats \in {{}, {"metal", "ceramic"}},
        n \in {1, MaxResultsBound, 20}}
    \cup {[Query0 EXCEPT !.requirements.max_cost_per_kg = b,
              !.max_results = n] :
             b \in {None, Q(10, 1)}, n \in {-1, 0}}
    \cup {[Query0 EXCEPT !.requirements.max_cost_per_kg = Q(10, 1),
              !.requirements.min_yield_strength = Q(300, 1),
              !.max_results = n] : n \in {1, 20}}
    \cup {[Query0 EXCEPT !.requirements.min_tensile_strength = Zero,
              !.requirements.max_tensile_strength = Q(600, 1),
              !.max_results = n] : n \in {1, 20}}

\* Queries with operating-temperature bounds.
ThermalQueries ==
    {[Query0 EXCEPT !.requirements.min_operating_temp = u,
         !.requirements.max_operating_temp = t] :
        u \in {None, Zero, Q(-40, 1), Q(1400, 1)},
        t \in {None, Zero, Q(300, 1)}}

\* Queries of the long-running service.
CacheQueries ==
    {Query0,
     [Query0 EXCEPT !.requirements.max_cost_per_kg = Q(10, 1),
         !.requirements.min_tensile_strength = Q(500, 1),
         !.max_results = 1]}

\* The entries filter dicts are made of, by number.
FilterEntry(n) ==
    CASE n = 1 -> [field |-> "cost_per_kg", operator |-> "lte",
                   value |-> Q(10, 1)]
      [] n = 2 -> [field |-> "cost_per_kg", operator |-> "gt",
                   value |-> Q(2, 1)]
      [] n = 3 -> [field |-> "cost_per_kg", operator |-> "eq",
                   value |-> Q(8, 1)]
      [] n = 4 -> [field |-> "tensile_strength", operator |-> "gte",
                   value |-> Q(400, 1)]
      [] n = 5 -> [field |-> "tensile_strength", operator |-> "lt",
                   value |-> Q(600, 1)]
      [] n = 6 -> [field |-> "category", operator |-> "eq",
                   value |-> "metal"]
      [] n = 7 -> [field |-> "category", operator |-> "in",
                   value |-> {"metal", "ceramic"}]
      [] n = 8 -> [field |-> "category", operator |-> "not_in",
                   value |-> {"polymer"}]
      [] n = 9 -> [field |-> "name", operator |-> "icontains",
                   value |-> <<"T", "e", "E">>]
      [] n = 10 -> [field |-> "composition", operator |-> "contains",
                    value |-> <<"A", "l">>]
      [] n = 11 -> [field |-> "geographic_region", operator |-> "eq",
                    value |-> "EU"]
      [] n = 12 -> [field |-> "carbon_footprint", operator |-> "lte",
                    value |-> Q(1, 1)]

NumFilterEntries == 12

\* The entries supplier filter dicts are made of, by number: each of the
\* nine operators, and a field Supplier does not have.
SupplierFilterEntry(n) ==
    CASE n = 1 -> [field |-> "id", operator |-> "eq",
                   value |-> "supplier_2"]
      [] n = 2 -> [field |-> "quality_rating", operator |-> "gte",
                   value |-> Q(9, 1)]
      [] n = 3 -> [field |-> "minimum_order", operator |-> "lte",
                   value |-> Q(25, 1)]
      [] n = 4 -> [field |-> "lead_time_days", operator |-> "gt",
                   value |-> Q(14, 1)]
      [] n = 5 -> [field |-> "minimum_order", operator |-> "lt",
                   value |-> Q(25, 1)]
      [] n = 6 -> [field |-> "id", operator |-> "in",
                   value |-> {"supplier_1", "supplier_3"}]
      [] n = 7 -> [field |-> "id", operator |-> "not_in",
                   value |-> {"supplier_1"}]
      [] n = 8 -> [field |-> "location", operator |-> "icontains",
                   value |-> <<"u", "s", "a">>]
      [] n = 9 -> [field |-> "materials", operator |-> "contains",
                   value |-> "peek"]
      [] n = 10 -> [field |-> "region", operator |-> "eq",
                    value |-> "EU"]

NumSupplierFilterEntries == 10

SupplierFilterDict(numbers) ==
    [i \in 1..Len(numbers) |-> SupplierFilterEntry(numbers[i])]

SupplierFilterNumbers ==
    {<<>>} \cup {<<f>> : f \in 1..NumSupplierFilterEntries}
    \cup {d \in (1..NumSupplierFilterEntries)
                    \X (1..NumSupplierFilterEntries) :
             SupplierFilterEntry(d[1]).field # SupplierFilterEntry(d[2]).field
             \/ SupplierFilterEntry(d[1]).operator
                    # SupplierFilterEntry(d[2]).operator}

\* What simulate_properties can return, a dict given by its values: the
\* empty dict after a failure, and a dict with one prediction.
SimulatedProperties == {<<>>, <<Q(600, 1)>>}

\* The queries posted to /recommend.
ApiQueries ==
    {[Query0 EXCEPT !.max_results = 1],
     [Query0 EXCEPT !.requirements.max_cost_per_kg = Q(10, 1),
         !.max_results = 2]}

\* Search texts: empty, part of several names, part of names and of
\* composition keys, in upper case, and one that occurs nowhere.
SearchTexts ==
    {<<>>, <<"e", "e">>, <<"A", "L">>, <<"c">>, <<"z">>}

\* A filters dict of one or two entries, given by the entries' numbers.
FilterDict(numbers) == [i \in 1..Len(numbers) |-> FilterEntry(numbers[i])]

FilterNumbers ==
    {<<>>} \cup {<<f>> : f \in 1..NumFilterEntries}
    \cup {d \in (1..NumFilterEntries) \X (1..NumFilterEntries) :
             FilterEntry(d[1]).field # FilterEntry(d[2]).field
             \/ FilterEntry(d[1]).operator # FilterEntry(d[2]).operator}

Thresholds == {Zero, Q(1, 2), Q(7, 10), One}

IdNames == <<"a", "b", "c", "d", "e", "f">>

\* The material id lists analysed: n different ids, or one id twice.
MaterialIdLists ==
    {[i \in 1..n |-> IdNames[i]] : n \in 0..MaxIds} \cup {<<"a", "a">>}

CriteriaNames ==
    {<<"S", "t", "r", "e", "n", "g", "t", "h">>, <<"c", "o", "s", "t">>,
     <<"x">>}

\* The criteria lists analysed: empty, one criterion, two criteria of
\* different ranges, and one criterion twice.
CriteriaLists ==
    {<<>>} \cup {<<c>> : c \in CriteriaNames}
    \cup {<<<<"S", "t", "r", "e", "n", "g", "t", "h">>, <<"c", "o", "s", "t">>>>,
          <<<<"c", "o", "s", "t">>, <<"x">>>>,
          <<<<"x">>, <<"x">>>>}

(***************************************************************************)
(* State and operations                                                    *)
(***************************************************************************)
NoCall == [op |-> "none"]

NoInput == [op |-> "none"]

EmptyCache == <<>>

\* The long-running recommender: a catalog, an empty cache, the clock at 0.
Init ==
    /\ materials \in ServiceCatalogs
    /\ cache = EmptyCache
    /\ now = 0
    /\ inp = NoInput
    /\ last = NoCall

\* Time passes between requests.
Tick ==
    /\ now < MaxTime
    /\ now' = now + 1
    /\ UNCHANGED <<materials, cache, inp, last>>

\* One call of MaterialRecommender.recommend at the current time.
Recommend(query) ==
    \E call \in {recommend(query, cache, now, materials)} :
        /\ cache' = call.cache
        /\ last' = [op |-> "recommend", query |-> query,
                    key |-> generate_cache_key(query), at |-> now,
                    hit |-> call.db_queries = 0,
                    had_entry |-> generate_cache_key(query) \in DOMAIN cache,
                    replaced |->
                        IF generate_cache_key(query) \in DOMAIN cache
                        THEN cache[generate_cache_key(query)].result
                        ELSE call.result,
                    result |-> call.result,
                    db_queries |-> call.db_queries,
                    scored |-> call.scored]
        /\ UNCHANGED <<materials, now, inp>>

\* One call of MaterialRecommender.recommend that an exception leaves.
RecommendRaises(query, raises_at) ==
    \E call \in {recommend_raising(query, cache, now, materials, raises_at)} :
        /\ call.raised
        /\ cache' = call.cache
        /\ last' = [op |-> "recommend_raised", query |-> query,
                    key |-> generate_cache_key(query), at |-> now,
                    raises_at |-> raises_at,
                    had_entry |-> generate_cache_key(query) \in DOMAIN cache,
                    db_queries |-> call.db_queries,
                    scored |-> call.scored]
        /\ UNCHANGED <<materials, now, inp>>

Next ==
    \/ Tick
    \/ \E query \in CacheQueries : Recommend(query)
    \/ \E query \in CacheQueries, raises_at \in RaisePoints :
           RecommendRaises(query, raises_at)

Spec == Init /\ [][Next]_vars

\* The first recommend call of a fresh recommender, for any query.
InitRank ==
    /\ materials \in RankCatalogs
    /\ cache = EmptyCache
    /\ now = 0
    /\ inp \in [query : RankQueries]
    /\ last = NoCall

RecommendFirst ==
    /\ last = NoCall
    /\ Recommend(inp.query)

NextRank == RecommendFirst

SpecRank == InitRank /\ [][NextRank]_vars

\* score_material applied to one material and one requirements set.
InitScore ==
    /\ materials = <<steel_a, peek, aluminum>>
    /\ cache = EmptyCache
    /\ now = 0
    /\ inp \in [material : ScoreMaterials, requirements : ScoreRequirements]
    /\ last = NoCall

ScoreMaterial ==
    /\ last = NoCall
    /\ last' = [op |-> "score_material",
                score |-> score_material(inp.material, inp.requirements),
                raised |-> Raised(score_material_try(inp.material,
                                                     inp.requirements))]
    /\ UNCHANGED <<materials, cache, now, inp>>

NextScore == ScoreMaterial

SpecScore == InitScore /\ [][NextScore]_vars

\* One catalog query on a freshly initialized catalog.
InitCatalogInput ==
       \/ inp \in [op : {"query_materials"}, filters : FilterNumbers]
       \/ inp \in [op : {"search_materials_by_text"}, query : SearchTexts,
                   filters : {<<>>, <<1>>, <<6>>, <<8>>},
                   limit : 0..(MaxResultsBound + 1)]
       \/ inp \in [op : {"query_suppliers"},
                   filters : SupplierFilterNumbers]
       \/ inp \in [op : {"find_alternatives"},
                   material_id : {m.id : m \in SampleMaterials}
                                     \cup {"missing"},
                   requirements : {Requirements0, full_requirements}]
       \/ inp \in [op : {"find_similar_materials"},
                   reference_material : SampleMaterials,
                   similarity_threshold : Thresholds,
                   max_results : (-1)..(MaxResultsBound + 1)]

InitCatalog ==
    /\ cache = EmptyCache
    /\ now = 0
    /\ \/ /\ materials \in ThermalCatalogs
          /\ inp \in [op : {"find_candidate_materials"},
                      query : ThermalQueries]
       \/ /\ materials \in Catalogs
          /\ InitCatalogInput
    /\ last = NoCall

QueryMaterials ==
    /\ last = NoCall
    /\ inp.op = "query_materials"
    /\ last' = [op |-> "query_materials",
                result |-> query_materials(materials,
                                           FilterDict(inp.filters))]
    /\ UNCHANGED <<materials, cache, now, inp>>

FindSimilarMaterials ==
    /\ last = NoCall
    /\ inp.op = "find_similar_materials"
    /\ last' = [op |-> "find_similar_materials",
                result |-> find_similar_materials(materials,
                                                  inp.reference_material,
                                                  inp.similarity_threshold,
                                                  inp.max_results)]
    /\ UNCHANGED <<materials, cache, now, inp>>

SearchMaterialsByText ==
    /\ last = NoCall
    /\ inp.op = "search_materials_by_text"
    /\ last' = [op |-> "search_materials_by_text",
                result |-> search_materials_by_text(materials, inp.query,
                                                    FilterDict(inp.filters),
                                                    inp.limit)]
    /\ UNCHANGED <<materials, cache, now, inp>>

QuerySuppliers ==
    /\ last = NoCall
    /\ inp.op = "query_suppliers"
    /\ last' = [op |-> "query_suppliers",
                result |-> query_suppliers(sample_suppliers,
                                           SupplierFilterDict(inp.filters))]
    /\ UNCHANGED <<materials, cache, now, inp>>

FindCandidateMaterials ==
    /\ last = NoCall
    /\ inp.op = "find_candidate_materials"
    /\ last' = [op |-> "find_candidate_materials",
                filters |-> build_filters(inp.query),
                result |-> find_candidate_materials(inp.query, materials)]
    /\ UNCHANGED <<materials, cache, now, inp>>

FindAlternatives ==
    /\ last = NoCall
    /\ inp.op = "find_alternatives"
    /\ last' = [op |-> "find_alternatives",
                result |-> find_alternatives(materials, inp.material_id,
                                             inp.requirements)]
    /\ UNCHANGED <<materials, cache, now, inp>>

NextCatalog ==
    \/ QueryMaterials
    \/ FindSimilarMaterials
    \/ SearchMaterialsByText
    \/ QuerySuppliers
    \/ FindAlternatives
    \/ FindCandidateMaterials

SpecCatalog == InitCatalog /\ [][NextCatalog]_vars

\* Two recommend calls with the same query running as concurrent tasks of
\* the event loop of a fresh recommender, whose cache is empty. A
\* task can be suspended where recommend awaits; last.calls holds, for each
\* call, where it stands, its start_time, its local list (the candidates,
\* then the scored pairs) and what it returned, and last.writes lists the
\* calls in the order of their cache writes.
IdleCall == [pc |-> "idle", start_time |-> 0, local |-> <<>>,
             returned |-> <<>>]

RaceQueries ==
    {[Query0 EXCEPT !.max_results = MaxResultsBound],
     [Query0 EXCEPT !.requirements.max_cost_per_kg = Q(10, 1),
         !.max_results = 1]}

InitRace ==
    /\ materials \in {c \in ServiceCatalogs : c[1] = steel_a}
    /\ now = 0
    /\ inp \in [query : RaceQueries]
    /\ cache = EmptyCache
    /\ last = [op |-> "race", calls |-> <<IdleCall, IdleCall>>,
               writes |-> <<>>]

\* From the entry of recommend to its first await: start_time, the cache
\* key and the cache check.
CallBegins(p) ==
    /\ last.calls[p].pc = "idle"
    /\ LET cache_key == generate_cache_key(inp.query)
       IN  last' = [last EXCEPT !.calls[p] =
                       IF cache_key \in DOMAIN cache
                          /\ now - cache[cache_key].timestamp < cache_ttl
                       THEN [pc |-> "done", start_time |-> now,
                             local |-> <<>>,
                             returned |-> <<cache[cache_key].result>>]
                       ELSE [@ EXCEPT !.pc = "candidates",
                                      !.start_time = now]]
    /\ UNCHANGED <<materials, cache, now, inp>>

\* candidates = await self._find_candidate_materials(query)
CallFindsCandidates(p) ==
    /\ last.calls[p].pc = "candidates"
    /\ last' = [last EXCEPT !.calls[p].pc = "scoring",
                            !.calls[p].local =
                                find_candidate_materials(inp.query,
                                                         materials)]
    /\ UNCHANGED <<materials, cache, now, inp>>

\* The loop of "score = await self.scorer.score_material(...)".
CallScores(p) ==
    /\ last.calls[p].pc = "scoring"
    /\ last' = [last EXCEPT !.calls[p].pc = "finishing",
                            !.calls[p].local =
                                score_candidates(@,
                                                 inp.query.requirements)]
    /\ UNCHANGED <<materials, cache, now, inp>>

\* From the end of the scoring loop to the return: the sort, the slices,
\* the result with its processing time, and the cache write.
CallFinishes(p) ==
    /\ last.calls[p].pc = "finishing"
    /\ \E final \in {SliceTo(Items(sort_reverse(last.calls[p].local)),
                               inp.query.max_results)} :
       \E result \in
             {[final_result(inp.query, last.calls[p].local, final)
                  EXCEPT !.processing_time_ms =
                             now - last.calls[p].start_time]} :
           /\ cache' = CachePut(cache, generate_cache_key(inp.query),
                                result, now)
           /\ last' = [last EXCEPT !.calls[p].pc = "done",
                                   !.calls[p].local = <<>>,
                                   !.calls[p].returned = <<result>>,
                                   !.writes = Append(@, p)]
    /\ UNCHANGED <<materials, now, inp>>

CallSteps(p) ==
    \/ CallBegins(p)
    \/ CallFindsCandidates(p)
    \/ CallScores(p)
    \/ CallFinishes(p)

NextRace ==
    \/ Tick
    \/ \E p \in 1..2 : CallSteps(p)

\* The event loop runs every task that is ready.
SpecRace ==
    /\ InitRace
    /\ [][NextRace]_vars
    /\ \A p \in 1..2 : WF_vars(CallSteps(p))

\* The running application: requests to the endpoints of main.py in any
\* order.
InitApi ==
    /\ materials \in {c \in ServiceCatalogs : c[1] = steel_a}
    /\ cache = EmptyCache
    /\ now = 0
    /\ inp = NoInput
    /\ last = NoCall

\* POST /recommend: recommend, then the simulation loop over the result's
\* materials. The result is the object stored in the cache.
RecommendEndpoint(query) ==
    \E call \in {recommend(query, cache, now, materials)} :
        \E simulated \in [1..Len(call.result.materials)
                             -> SimulatedProperties] :
            \E after \in {simulate_recommendations(materials, call.result,
                                                    simulated)} :
                /\ materials' = after.catalog
                /\ cache' = [call.cache
                                EXCEPT ![generate_cache_key(query)].result =
                                           after.recommendations]
                /\ last' = [op |-> "recommend_materials",
                            key |-> generate_cache_key(query)]
                /\ UNCHANGED <<now, inp>>

\* POST /alternatives
AlternativesEndpoint(material_id) ==
    /\ last' = [op |-> "suggest_alternatives",
                result |-> find_alternatives(materials, material_id,
                                             Requirements0)]
    /\ UNCHANGED <<materials, cache, now, inp>>

\* GET /materials/search
SearchEndpoint(query, category, limit) ==
    /\ last' = [op |-> "search_materials",
                result |-> search_materials(materials, query, category,
                                            limit)]
    /\ UNCHANGED <<materials, cache, now, inp>>

\* GET /materials/{material_id}: the material, or status 404.
MaterialDetailsEndpoint(material_id) ==
    /\ last' = [op |-> "get_material_details",
                result |-> get_material_by_id(materials, material_id)]
    /\ UNCHANGED <<materials, cache, now, inp>>

\* GET /suppliers
SuppliersEndpoint(material_id, region, min_quantity) ==
    /\ last' = [op |-> "get_suppliers",
                result |-> get_suppliers(sample_suppliers, material_id,
                                         region, min_quantity)]
    /\ UNCHANGED <<materials, cache, now, inp>>

NextApi ==
    \/ Tick
    \/ \E query \in ApiQueries : RecommendEndpoint(query)
    \/ \E material_id \in {"steel_a", "missing"} :
           AlternativesEndpoint(material_id)
    \/ \E category \in {NoString, "polymer"} :
           SearchEndpoint(<<"e", "e">>, category, 20)
    \/ \E material_id \in {"steel_b", "missing"} :
           MaterialDetailsEndpoint(material_id)
    \/ \E region \in {<<>>, <<"u", "s", "a">>},
          min_quantity \in {None, Q(25, 1)} :
           SuppliersEndpoint("peek", region, min_quantity)

SpecApi == InitApi /\ [][NextApi]_vars

\* One trade-off analysis; the simulator keeps no state between analyses.
InitTradeoff ==
    /\ materials = <<steel_a, peek, aluminum>>
    /\ cache = EmptyCache
    /\ now = 0
    /\ inp \in [material_ids : MaterialIdLists,
                criteria : CriteriaLists]
    /\ last = NoCall

AnalyzeTradeoffs ==
    /\ last = NoCall
    /\ \E draws \in Draws(inp.material_ids, inp.criteria) :
           last' = [op |-> "analyze_tradeoffs",
                    analysis |-> analyze_tradeoffs(inp.material_ids,
                                                   inp.criteria, draws)]
    /\ UNCHANGED <<materials, cache, now, inp>>

NextTradeoff == AnalyzeTradeoffs

SpecTradeoff == InitTradeoff /\ [][NextTradeoff]_vars
(***************************************************************************)
(* Properties of the scorer (SpecScore)                                    *)
(***************************************************************************)
\* C1: for every material and every requirements set, score_material
\* returns a score whose overall_score lies in [0, 1].
C1_overall_in_unit_interval ==
    last.op = "score_material" => InUnit(last.score.overall_score)

\* C2: on every exit path of score_material, each of the four sub-scores
\* and each of the four match components is a number in [0, 1].
C2_all_scores_in_unit_interval ==
    last.op = "score_material" =>
        \A f \in {"performance_score", "cost_score", "sustainability_score",
                  "availability_score", "mechanical_match", "thermal_match",
                  "electrical_match", "environmental_match"} :
            InUnit(last.score[f])

\* C9: score_material never raises to its caller (every field of what it
\* returns is a number), and when a sub-score computation raised it
\* returns 0.1 for the four weighted scores and for overall_score and 0.0
\* for the four match components.
C9_degraded_score_on_exception ==
    last.op = "score_material" =>
        /\ \A f \in ScoreFields : IsNum(last.score[f])
        /\ last.raised =>
               last.score =
                   [performance_score |-> <<1, 10>>, cost_score |-> <<1, 10>>,
                    sustainability_score |-> <<1, 10>>,
                    availability_score |-> <<1, 10>>,
                    overall_score |-> <<1, 10>>,
                    mechanical_match |-> <<0, 1>>,
                    thermal_match |-> <<0, 1>>,
                    electrical_match |-> <<0, 1>>,
                    environmental_match |-> <<0, 1>>]

\* A sub-score computation raised (a negative tensile strength divided by
\* a zero minimum) and score_material returned.
C9_witness ==
    /\ last.op = "score_material"
    /\ last.raised
    /\ QLt(inp.material.tensile_strength, Zero)
    /\ inp.requirements.min_tensile_strength = Zero

\* C20: a known cost equal to max_cost_per_kg scores exactly 0.2; a known
\* cost at most the bound scores max(0.2, 1 - 0.8 * cost / bound), a cost
\* above the bound max(0.1, bound / cost), a known cost without a bound
\* max(0.3, 1 - 0.7 * min(1, cost / 100)), and an unknown cost 0.5.
C20_cost_score_by_case ==
    (last.op = "score_material" /\ ~last.raised) =>
        LET cost == inp.material.cost_per_kg
            bound == inp.requirements.max_cost_per_kg
            cost_score == last.score.cost_score
        IN  IF IsNone(cost) THEN cost_score = Q(1, 2)
            ELSE IF IsNone(bound)
            THEN cost_score
                     = QMax(Q(3, 10),
                            QSub(One,
                                 QMul(Q(7, 10),
                                      QMin(One, QDiv(cost, Q(100, 1))))))
            ELSE IF cost = bound THEN cost_score = Q(1, 5)
            ELSE IF QLe(cost, bound)
            THEN cost_score
                     = QMax(Q(1, 5),
                            QSub(One, QMul(Q(4, 5), QDiv(cost, bound))))
            ELSE cost_score = QMax(Q(1, 10), QDiv(bound, cost))

\* C21: with a max_operating_temp requirement, no thermal-conductivity
\* bound and a known melting point, the temperature term is 1.0 when
\* melting_point >= max_operating_temp + 100, 0.7 when
\* max_operating_temp <= melting_point < max_operating_temp + 100 and 0.1
\* below; thermal_match is that term alone, or its mean with a flat 0.8
\* when min_operating_temp is required too.
C21_thermal_margin ==
    (/\ last.op = "score_material"
     /\ ~last.raised
     /\ ~IsNone(inp.requirements.max_operating_temp)
     /\ IsNone(inp.requirements.min_thermal_conductivity)
     /\ IsNone(inp.requirements.max_thermal_conductivity)
     /\ ~IsNone(inp.material.melting_point)) =>
        LET mp == inp.material.melting_point
            hi == inp.requirements.max_operating_temp
            term == IF mp[1] * hi[2] >= (hi[1] + 100 * hi[2]) * mp[2]
                    THEN <<1, 1>>
                    ELSE IF mp[1] * hi[2] >= hi[1] * mp[2] THEN <<7, 10>>
                    ELSE <<1, 10>>
        IN  last.score.thermal_match
                = IF IsNone(inp.requirements.min_operating_temp) THEN term
                  ELSE Q(term[1] * 10 + 8 * term[2], 20 * term[2])

\* C24: when scoring returns normally, performance_score is the
\* arithmetic mean of those of mechanical_match, thermal_match and
\* electrical_match that are strictly greater than 0, and 0.5 when none
\* of them is.
C24_performance_is_mean_of_positive_matches ==
    (last.op = "score_material" /\ ~last.raised) =>
        LET match == <<last.score.mechanical_match,
                       last.score.thermal_match,
                       last.score.electrical_match>>
            pos == {i \in 1..3 : match[i][1] * match[i][2] > 0}
            term(i) == IF i \in pos THEN match[i] ELSE Zero
        IN  last.score.performance_score
                = IF pos = {} THEN Q(1, 2)
                  ELSE QDiv(QAdd(QAdd(term(1), term(2)), term(3)),
                            Q(Cardinality(pos), 1))

\* Two matches are positive and differ, the third is 0.
C24_witness ==
    /\ last.op = "score_material"
    /\ ~last.raised
    /\ QLt(Zero, last.score.mechanical_match)
    /\ QLt(last.score.mechanical_match, last.score.thermal_match)
    /\ last.score.electrical_match = Zero
    /\ last.score.performance_score
           = QDiv(QAdd(last.score.mechanical_match,
                       last.score.thermal_match), Q(2, 1))

\* C25: for a positive max_cost_per_kg bound, cost_score is non-increasing
\* in the known cost: the same material at any lower or equal known cost
\* scores at least as much, so a cost above the bound never scores higher
\* than a cost within it.
C25_cost_score_non_increasing ==
    (/\ last.op = "score_material"
     /\ ~last.raised
     /\ ~IsNone(inp.requirements.max_cost_per_kg)
     /\ QLt(Zero, inp.requirements.max_cost_per_kg)
     /\ ~IsNone(inp.material.cost_per_kg)) =>
        \A cost \in {m.cost_per_kg : m \in ScoreMaterials} \ {None} :
            QLe(cost, inp.material.cost_per_kg) =>
                QLe(last.score.cost_score,
                    calculate_cost_score(
                        [inp.material EXCEPT !.cost_per_kg = cost],
                        inp.requirements))

(***************************************************************************)
(* Properties of the recommender cache (Spec)                              *)
(***************************************************************************)
\* C3: a recommend call whose key was cached less than the TTL ago returns
\* the stored result itself, makes no catalog query and no scoring call,
\* and leaves the cache (entry and timestamp) as it was.
C3_fresh_entry_is_returned_unchanged ==
    [][\A query \in CacheQueries :
         LET key == generate_cache_key(query)
         IN  (/\ key \in DOMAIN cache
              /\ now - cache[key].timestamp < cache_ttl
              /\ Recommend(query))
             => /\ last'.result = cache[key].result
                /\ last'.db_queries = 0
                /\ last'.scored = 0
                /\ cache' = cache]_vars

\* A call hit an entry that was cached at an earlier time.
C3_witness ==
    /\ last.op = "recommend"
    /\ last.hit
    /\ last.at > cache[last.key].timestamp
    /\ last.at - cache[last.key].timestamp < cache_ttl

\* C4: a recommend call that finds an entry of age at least the TTL does
\* not return it: it queries the catalog, stores the recomputed result
\* under the same key with the current time, leaves the other entries
\* alone, and a call with the same query right after it is a cache hit.
C4_stale_entry_is_replaced ==
    [][\A query \in CacheQueries :
         LET key == generate_cache_key(query)
         IN  (/\ key \in DOMAIN cache
              /\ now - cache[key].timestamp >= cache_ttl
              /\ Recommend(query))
             => /\ last'.db_queries = 1
                /\ cache'[key] = [result |-> last'.result, timestamp |-> now]
                /\ DOMAIN cache' = DOMAIN cache
                /\ \A k \in DOMAIN cache \ {key} : cache'[k] = cache[k]
                /\ recommend(query, cache', now', materials).db_queries = 0
                /\ recommend(query, cache', now', materials).result
                       = last'.result]_vars

\* A call found an entry of its key that was too old and recomputed.
C4_witness ==
    /\ last.op = "recommend"
    /\ last.had_entry
    /\ ~last.hit
    /\ cache[last.key].timestamp = last.at
    /\ last.at >= cache_ttl

\* C5: an uncached recommend returns the materials by non-increasing
\* overall_score with equal scores in catalog insertion order, and when it
\* replaces an earlier evaluation of the same query it returns the same
\* sequence of material ids as that one.
C5_ranking_is_deterministic ==
    (last.op = "recommend" /\ ~last.hit) =>
        LET ms == last.result.materials
            sc == last.result.scores
            Pos(id) == CHOOSE i \in 1..Len(materials) : materials[i].id = id
        IN  /\ \A i, j \in 1..Len(ms) :
                   i < j =>
                       /\ QLe(sc[j].overall_score, sc[i].overall_score)
                       /\ sc[i].overall_score = sc[j].overall_score
                              => Pos(ms[i].id) < Pos(ms[j].id)
            /\ last.had_entry =>
                   [i \in 1..Len(ms) |-> ms[i].id]
                       = [i \in 1..Len(last.replaced.materials) |->
                             last.replaced.materials[i].id]

\* A second uncached evaluation ranked two materials of equal score.
C5_witness ==
    /\ last.op = "recommend"
    /\ ~last.hit
    /\ last.had_entry
    /\ Len(last.result.materials) >= 2
    /\ last.result.scores[1].overall_score
           = last.result.scores[2].overall_score
    /\ last.result.materials[1].id # last.result.materials[2].id

\* C23: no step removes a cache key; the keys after a step are the keys
\* before it together with the key of the query the step computed, if it
\* computed one, so the cache holds one entry per distinct query content
\* computed so far and stale entries stay.
C23_cache_never_loses_a_key ==
    [][/\ DOMAIN cache \subseteq DOMAIN cache'
       /\ DOMAIN cache'
              = DOMAIN cache
                \cup (IF last'.op = "recommend" /\ ~last'.hit
                      THEN {last'.key} ELSE {})
       /\ Cardinality(DOMAIN cache') >= Cardinality(DOMAIN cache)]_vars

\* A second key was written while the entry of the first was stale.
C23_witness ==
    /\ last.op = "recommend"
    /\ ~last.hit
    /\ ~last.had_entry
    /\ Cardinality(DOMAIN cache) = 2
    /\ \E k \in DOMAIN cache :
           k # last.key /\ now - cache[k].timestamp >= cache_ttl

\* C27: a recommend call that the catalog query or the result
\* construction leaves by an exception changes nothing in the cache: every
\* entry is as it was before the call and no entry is written for the
\* failed computation.
C27_failed_call_leaves_cache ==
    [][last'.op = "recommend_raised" =>
          /\ cache' = cache
          /\ last'.db_queries = 1
          /\ ~last'.had_entry => last'.key \notin DOMAIN cache']_vars

\* The result construction fails for a key the cache does not hold while
\* the cache holds another entry.
C27_witness ==
    /\ last.op = "recommend_raised"
    /\ last.raises_at = "result_construction"
    /\ last.scored > 0
    /\ last.key \notin DOMAIN cache
    /\ cache # EmptyCache

C12_concurrent_calls_agree ==
    <>[](/\ \A p \in 1..2 : last.calls[p].pc = "done"
         /\ LET first == last.calls[1].returned[1]
                second == last.calls[2].returned[1]
                cache_key == generate_cache_key(inp.query)
                Ids(result) ==
                    [i \in 1..Len(result.materials) |->
                        result.materials[i].id]
            IN  /\ Ids(first) = Ids(second)
                /\ first.scores = second.scores
                /\ last.writes # <<>>
                /\ cache_key \in DOMAIN cache
                /\ cache[cache_key].result
                       = last.calls[last.writes[Len(last.writes)]].returned[1])

\* Both calls missed the cache and wrote it, at different times, and their
\* results differ in processing time only.
C12_witness ==
    /\ last.op = "race"
    /\ \A p \in 1..2 : last.calls[p].pc = "done"
    /\ Len(last.writes) = 2
    /\ last.calls[1].returned[1].materials # <<>>
    /\ last.calls[1].returned[1].processing_time_ms
           # last.calls[2].returned[1].processing_time_ms

(***************************************************************************)
(* Properties of the catalog (SpecCatalog)                                 *)
(***************************************************************************)
\* C6 as stated: for every reference, threshold and max_results,
\* find_similar_materials never returns the reference, never more than
\* max_results materials, only materials of similarity at least the
\* threshold, by non-increasing similarity.
C6_similar_for_every_max_results ==
    last.op = "find_similar_materials" =>
        LET res == last.result
            Sim(m) == calculate_similarity(inp.reference_material, m)
        IN  /\ \A i \in 1..Len(res) : res[i].id # inp.reference_material.id
            /\ Len(res) <= inp.max_results
            /\ \A i \in 1..Len(res) :
                   QLe(inp.similarity_threshold, Sim(res[i]))
            /\ \A i, j \in 1..Len(res) :
                   i < j => QLe(Sim(res[j]), Sim(res[i]))

\* C6 amended: the same for every max_results >= 0; the materials returned
\* are catalog materials.
C6_similar_for_nonnegative_max_results ==
    (last.op = "find_similar_materials" /\ inp.max_results >= 0) =>
        LET res == last.result
            Sim(m) == calculate_similarity(inp.reference_material, m)
        IN  /\ \A i \in 1..Len(res) : res[i].id # inp.reference_material.id
            /\ \A i \in 1..Len(res) :
                   \E k \in 1..Len(materials) : materials[k] = res[i]
            /\ Len(res) <= inp.max_results
            /\ \A i \in 1..Len(res) :
                   QLe(inp.similarity_threshold, Sim(res[i]))
            /\ \A i, j \in 1..Len(res) :
                   i < j => QLe(Sim(res[j]), Sim(res[i]))

\* A search from a catalog material filled max_results with two materials
\* of different similarity.
C6_witness ==
    /\ last.op = "find_similar_materials"
    /\ \E k \in 1..Len(materials) : materials[k] = inp.reference_material
    /\ inp.max_results = 2
    /\ Len(last.result) = 2
    /\ calculate_similarity(inp.reference_material, last.result[1])
           # calculate_similarity(inp.reference_material, last.result[2])

\* C7: query_materials returns exactly the catalog materials, in insertion
\* order, that satisfy every filter whose field they have a value for; a
\* filter on a field that is None or absent excludes nothing.
C7_query_materials_matches ==
    last.op = "query_materials" =>
        LET filters == FilterDict(inp.filters)
            Present(m, field) ==
                /\ field \in DOMAIN m
                /\ field \in NumericFields => m[field] # <<0, 0>>
            Satisfies(operator, v, w) ==
                CASE operator = "eq" -> v = w
                  [] operator = "gte" -> v[1] * w[2] >= w[1] * v[2]
                  [] operator = "lte" -> v[1] * w[2] <= w[1] * v[2]
                  [] operator = "gt" -> v[1] * w[2] > w[1] * v[2]
                  [] operator = "lt" -> v[1] * w[2] < w[1] * v[2]
                  [] operator = "in" -> v \in w
                  [] operator = "not_in" -> v \notin w
                  [] operator = "icontains" -> IsSubstring(Lower(w), Lower(v))
                  [] operator = "contains" -> w \in v
            Matches(m) ==
                \A k \in 1..Len(filters) :
                    Present(m, filters[k].field) =>
                        Satisfies(filters[k].operator, m[filters[k].field],
                                  filters[k].value)
        IN  last.result = SelectSeq(materials, Matches)

\* A query kept a material that has no value for a filtered field and
\* dropped another material.
C7_witness ==
    /\ last.op = "query_materials"
    /\ Len(last.result) < Len(materials)
    /\ \E i \in 1..Len(last.result), k \in 1..Len(inp.filters) :
           value_is_None(last.result[i], FilterEntry(inp.filters[k]).field)

\* C14: for every limit >= 0, search_materials_by_text returns at most
\* limit materials: exactly the first limit catalog materials, in insertion
\* order, whose name or some composition key contains the query
\* case-insensitively and that satisfy the filters.
C14_search_returns_first_limit_matches ==
    (last.op = "search_materials_by_text" /\ inp.limit >= 0) =>
        LET filters == FilterDict(inp.filters)
            Matches(m) ==
                /\ \/ IsSubstring(Lower(inp.query), Lower(m.name))
                   \/ \E key \in m.composition :
                          IsSubstring(Lower(inp.query), Lower(key))
                /\ material_matches_filters(m, filters)
            matching == SelectSeq(materials, Matches)
        IN  /\ Len(last.result) <= inp.limit
            /\ last.result
                   = SubSeq(matching, 1,
                            IF inp.limit < Len(matching)
                            THEN inp.limit ELSE Len(matching))

\* C15: query_suppliers excludes a supplier whose present field value
\* fails a filter, for each of the nine operators eq, gte, lte, gt, lt, in,
\* not_in, icontains and contains, as query_materials does for a material.
C15_supplier_filters_as_material_filters ==
    last.op = "query_suppliers" =>
        LET filters == SupplierFilterDict(inp.filters)
            Fails(supplier) ==
                \E k \in 1..Len(filters) :
                    /\ filters[k].field \in DOMAIN supplier
                    /\ filter_rejects(filters[k].operator,
                                      supplier[filters[k].field],
                                      filters[k].value)
        IN  \A i \in 1..Len(last.result) : ~Fails(last.result[i])

\* C16: find_alternatives returns the empty list when the id is not in the
\* catalog, and otherwise exactly the materials other than the reference
\* whose similarity to it is at least 0.7, most similar first, at most
\* ten; the result is the same for every requirements argument.
C16_alternatives_are_similar_materials ==
    last.op = "find_alternatives" =>
        /\ IF \A i \in 1..Len(materials) : materials[i].id # inp.material_id
           THEN last.result = <<>>
           ELSE LET reference ==
                        materials[CHOOSE i \in 1..Len(materials) :
                                      materials[i].id = inp.material_id]
                IN  last.result
                        = find_similar_materials(materials, reference,
                                                 Q(7, 10), 10)
        /\ \A requirements \in {Requirements0, full_requirements} :
               find_alternatives(materials, inp.material_id, requirements)
                   = last.result

\* A catalog material was the reference, some material came back as an
\* alternative and another material other than the reference did not.
C16_witness ==
    /\ last.op = "find_alternatives"
    /\ inp.requirements = full_requirements
    /\ last.result # <<>>
    /\ \E i \in 1..Len(materials) :
           /\ materials[i].id # inp.material_id
           /\ \A j \in 1..Len(last.result) : last.result[j] # materials[i]

\* TRUE when a catalog material with a known melting point below the
\* threshold is among the candidates.
BelowThresholdKept(threshold) ==
    \E i \in 1..Len(materials) :
        /\ ~IsNone(materials[i].melting_point)
        /\ QLt(materials[i].melting_point, threshold)
        /\ \E j \in 1..Len(last.result) : last.result[j] = materials[i]

HasMeltingPointFilter(threshold) ==
    \E j \in 1..Len(last.filters) :
        last.filters[j] = [field |-> "melting_point", operator |-> "gte",
                           value |-> threshold]

\* C22: a max_operating_temp bound b becomes the filter
\* melting_point >= b + 100, and a min_operating_temp bound b (with no
\* max_operating_temp bound, which would replace it) becomes
\* melting_point >= b + 50; no candidate has a known melting point below
\* the threshold.
C22_temperature_bounds_become_filters ==
    last.op = "find_candidate_materials" =>
        LET req == inp.query.requirements
        IN  /\ ~IsNone(req.max_operating_temp) =>
                   /\ HasMeltingPointFilter(
                          QAdd(req.max_operating_temp, Q(100, 1)))
                   /\ ~BelowThresholdKept(
                          QAdd(req.max_operating_temp, Q(100, 1)))
            /\ (~IsNone(req.min_operating_temp)
                   /\ IsNone(req.max_operating_temp)) =>
                   /\ HasMeltingPointFilter(
                          QAdd(req.min_operating_temp, Q(50, 1)))
                   /\ ~BelowThresholdKept(
                          QAdd(req.min_operating_temp, Q(50, 1)))

\* C26: with both operating-temperature bounds set and non-zero, the
\* filters hold one melting-point predicate, melting_point >=
\* max_operating_temp + 100, and the candidates are those of the same
\* query without its min_operating_temp bound.
C26_min_temperature_filter_overwritten ==
    (/\ last.op = "find_candidate_materials"
     /\ Truthy(inp.query.requirements.min_operating_temp)
     /\ Truthy(inp.query.requirements.max_operating_temp)) =>
        /\ SelectSeq(last.filters, LAMBDA f : f.field = "melting_point")
               = <<[field |-> "melting_point", operator |-> "gte",
                    value |-> QAdd(inp.query.requirements.max_operating_temp,
                                   Q(100, 1))]>>
        /\ last.result
               = find_candidate_materials(
                     [inp.query EXCEPT
                         !.requirements.min_operating_temp = None],
                     materials)

\* A candidate is kept although its melting point is below
\* min_operating_temp + 50.
C26_witness ==
    /\ last.op = "find_candidate_materials"
    /\ Truthy(inp.query.requirements.min_operating_temp)
    /\ Truthy(inp.query.requirements.max_operating_temp)
    /\ BelowThresholdKept(QAdd(inp.query.requirements.min_operating_temp,
                               Q(50, 1)))
    /\ Len(last.result) < Len(materials)

\* C30: the similarity of the reference material to a catalog material
\* equals the similarity of that material to the reference, so a material
\* is found similar to the reference (when max_results does not cut the
\* list) exactly when the reference reaches the threshold seen from it.
C30_similarity_is_symmetric ==
    last.op = "find_similar_materials" =>
        \A i \in 1..Len(materials) :
            /\ calculate_similarity(inp.reference_material, materials[i])
                   = calculate_similarity(materials[i],
                                          inp.reference_material)
            /\ inp.max_results >= Len(materials) =>
                   ((\E j \in 1..Len(last.result) :
                        last.result[j] = materials[i])
                    <=> /\ materials[i].id # inp.reference_material.id
                        /\ QLe(inp.similarity_threshold,
                               calculate_similarity(
                                   materials[i], inp.reference_material)))

\* A material of different property values is found similar to the
\* reference while another one is not.
C30_witness ==
    /\ last.op = "find_similar_materials"
    /\ inp.max_results >= Len(materials)
    /\ \E j \in 1..Len(last.result) :
           /\ QLt(calculate_similarity(last.result[j],
                                       inp.reference_material), One)
           /\ QLt(Q(1, 2), calculate_similarity(last.result[j],
                                                inp.reference_material))
    /\ \E i \in 1..Len(materials) :
           /\ materials[i].id # inp.reference_material.id
           /\ \A j \in 1..Len(last.result) : last.result[j] # materials[i]

(***************************************************************************)
(* Properties of the first recommendation (SpecRank)                       *)
(***************************************************************************)
\* C8: when max_cost_per_kg is a number strictly below the known cost of
\* every catalog material, recommend returns total_results = 0 and no
\* materials.
C8_budget_below_every_cost ==
    (/\ last.op = "recommend"
     /\ IsNum(inp.query.requirements.max_cost_per_kg)
     /\ \A i \in 1..Len(materials) :
            /\ IsNum(materials[i].cost_per_kg)
            /\ QLt(inp.query.requirements.max_cost_per_kg,
                   materials[i].cost_per_kg))
    => /\ last.result.total_results = 0
       /\ last.result.materials = <<>>

\* C13 as stated: for every integer max_results, recommend returns at most
\* max_results materials and at most max_results scores.
C13_at_most_max_results_for_every_integer ==
    last.op = "recommend" =>
        /\ Len(last.result.materials) <= inp.query.max_results
        /\ Len(last.result.scores) <= inp.query.max_results

\* C13 amended: for every max_results >= 0, recommend returns at most
\* max_results materials and at most max_results scores.
C13_at_most_max_results_when_nonnegative ==
    (last.op = "recommend" /\ inp.query.max_results >= 0) =>
        /\ Len(last.result.materials) <= inp.query.max_results
        /\ Len(last.result.scores) <= inp.query.max_results

\* More materials passed the threshold than max_results allows, and the
\* result was cut to max_results of them.
C13_witness ==
    /\ last.op = "recommend"
    /\ inp.query.max_results >= 1
    /\ last.result.total_results > inp.query.max_results
    /\ Len(last.result.materials) = inp.query.max_results

\* C17: every returned score has overall_score >= 0.1, no returned
\* material scores below 0.1, and total_results counts exactly the
\* candidates (catalog materials passing the query's filters) whose
\* overall_score is at least 0.1.
C17_scores_reach_threshold ==
    last.op = "recommend" =>
        LET req == inp.query.requirements
            kept == {i \in 1..Len(materials) :
                        /\ material_matches_filters(materials[i],
                                                    build_filters(inp.query))
                        /\ QLe(Q(1, 10),
                               score_material(materials[i],
                                              req).overall_score)}
        IN  /\ \A i \in 1..Len(last.result.scores) :
                   QLe(Q(1, 10), last.result.scores[i].overall_score)
            /\ \A i \in 1..Len(last.result.materials) :
                   QLe(Q(1, 10),
                       score_material(last.result.materials[i],
                                      req).overall_score)
            /\ last.result.total_results = Cardinality(kept)

\* A candidate scored below 0.1 and was dropped while another one was
\* returned.
C17_witness ==
    /\ last.op = "recommend"
    /\ last.result.total_results >= 1
    /\ \E i \in 1..Len(materials) :
           /\ material_matches_filters(materials[i],
                                       build_filters(inp.query))
           /\ QLt(score_material(materials[i],
                                 inp.query.requirements).overall_score,
                  Q(1, 10))

\* C18 as stated: confidence_level is min(1, 0.5 + 2 * stddev of the
\* returned overall scores) for two or more results and 0 for fewer.
C18_confidence_zero_below_two_results ==
    last.op = "recommend" =>
        LET sc == last.result.scores
            variance == std_squared([i \in 1..Len(sc) |->
                                        sc[i].overall_score])
        IN  /\ Len(sc) >= 2 =>
                   last.result.confidence_level
                       = (IF QLe(Q(1, 16), variance)
                          THEN [base |-> One, std_squared |-> Zero]
                          ELSE [base |-> Q(1, 2), std_squared |-> variance])
            /\ Len(sc) < 2 =>
                   last.result.confidence_level
                       = [base |-> Zero, std_squared |-> Zero]

\* C18 amended: confidence_level is min(1, 0.5 + 2 * stddev) for two or
\* more results, 0.5 for exactly one result and 0 for no result.
C18_confidence_half_for_one_result ==
    last.op = "recommend" =>
        LET sc == last.result.scores
            variance == std_squared([i \in 1..Len(sc) |->
                                        sc[i].overall_score])
        IN  /\ Len(sc) >= 2 =>
                   last.result.confidence_level
                       = (IF QLe(Q(1, 16), variance)
                          THEN [base |-> One, std_squared |-> Zero]
                          ELSE [base |-> Q(1, 2), std_squared |-> variance])
            /\ Len(sc) = 1 =>
                   last.result.confidence_level
                       = [base |-> Q(1, 2), std_squared |-> Zero]
            /\ Len(sc) = 0 =>
                   last.result.confidence_level
                       = [base |-> Zero, std_squared |-> Zero]

\* Two or more results of different overall scores were returned.
C18_witness ==
    /\ last.op = "recommend"
    /\ Len(last.result.scores) >= 2
    /\ last.result.confidence_level.base = Q(1, 2)
    /\ QLt(Zero, last.result.confidence_level.std_squared)

\* C19: with a non-empty result, best_performance is the first material's
\* id, most_cost_effective is the id of a returned material whose
\* cost_score is maximal among the returned scores, and most_sustainable
\* the id of one whose sustainability_score is maximal among them; with an
\* empty result all three are null.
C19_summary_ids ==
    last.op = "recommend" =>
        LET ms == last.result.materials
            sc == last.result.scores
            Best(id, field) ==
                \E i \in 1..Len(ms) :
                    /\ ms[i].id = id
                    /\ \A j \in 1..Len(sc) : QLe(sc[j][field], sc[i][field])
        IN  IF ms = <<>>
            THEN /\ last.result.best_performance = NoString
                 /\ last.result.most_cost_effective = NoString
                 /\ last.result.most_sustainable = NoString
            ELSE /\ last.result.best_performance = ms[1].id
                 /\ Best(last.result.most_cost_effective, "cost_score")
                 /\ Best(last.result.most_sustainable,
                         "sustainability_score")

\* The cheapest returned material is neither the top-ranked one nor the
\* most sustainable one.
C19_witness ==
    /\ last.op = "recommend"
    /\ Len(last.result.materials) >= 2
    /\ last.result.most_cost_effective # last.result.best_performance
    /\ last.result.most_cost_effective # last.result.most_sustainable

\* C28: in the result of recommend, materials and scores have the same
\* length, scores[i] is the score of materials[i] under the query's
\* requirements, and total_results is at least the number of materials.
C28_scores_pair_with_materials ==
    last.op = "recommend" =>
        /\ Len(last.result.materials) = Len(last.result.scores)
        /\ \A i \in 1..Len(last.result.materials) :
               i \in 1..Len(last.result.scores)
               /\ last.result.scores[i]
                      = score_material(last.result.materials[i],
                                       inp.query.requirements)
        /\ last.result.total_results >= Len(last.result.materials)

\* Two materials are returned in an order that is not the catalog's, with
\* different scores, and a third scored material was cut off.
C28_witness ==
    /\ last.op = "recommend"
    /\ Len(last.result.materials) = 2
    /\ last.result.total_results > 2
    /\ last.result.scores[1] # last.result.scores[2]
    /\ \E i, j \in 1..Len(materials) :
           /\ i < j
           /\ materials[j] = last.result.materials[1]
           /\ materials[i] = last.result.materials[2]

\* C29: a candidate whose scoring raised gets the degraded score with
\* overall_score 0.1, reaches the threshold and is counted in
\* total_results; it is among the returned materials when max_results
\* does not cut the list.
C29_degraded_candidate_is_kept ==
    last.op = "recommend" =>
        LET req == inp.query.requirements
            candidates == find_candidate_materials(inp.query, materials)
            failed == {i \in 1..Len(candidates) :
                          Raised(score_material_try(candidates[i], req))}
            low == {i \in 1..Len(candidates) :
                       /\ i \notin failed
                       /\ QLt(score_material(candidates[i],
                                             req).overall_score, Q(1, 10))}
        IN  /\ last.result.total_results
                   = Len(candidates) - Cardinality(low)
            /\ last.result.total_results >= Cardinality(failed)
            /\ \A i \in failed :
                   last.result.total_results <= inp.query.max_results =>
                       \E j \in 1..Len(last.result.materials) :
                           /\ last.result.materials[j] = candidates[i]
                           /\ last.result.scores[j] = default_low_scores

\* A candidate's scoring raised and the candidate is returned, last, with
\* the degraded score.
C29_witness ==
    /\ last.op = "recommend"
    /\ last.result.total_results >= 2
    /\ Len(last.result.materials) = last.result.total_results
    /\ Raised(score_material_try(
                  last.result.materials[Len(last.result.materials)],
                  inp.query.requirements))
    /\ last.result.scores[Len(last.result.scores)].overall_score = Q(1, 10)

(***************************************************************************)
(* Properties of the trade-off analysis (SpecTradeoff)                     *)
(***************************************************************************)
\* C10: for n material ids and a non-empty criteria list, analyze_tradeoffs
\* returns n comparisons whose ranks are exactly 1..n with weighted_score
\* non-increasing as rank increases; best_overall is the id at rank 1 and
\* pareto_optimal is the ids at ranks 1..min(3, n).
C10_tradeoff_ranking ==
    (last.op = "analyze_tradeoffs" /\ inp.criteria # <<>>) =>
        LET a == last.analysis
            n == Len(inp.material_ids)
            AtRank(r) == CHOOSE i \in 1..Len(a.materials) :
                             a.materials[i].rank = r
            top == IF n < 3 THEN n ELSE 3
        IN  /\ ~a.raised
            /\ Len(a.materials) = n
            /\ {a.materials[i].rank : i \in 1..n} = 1..n
            /\ \A i, j \in 1..n :
                   a.materials[i].rank < a.materials[j].rank =>
                       QLe(a.materials[j].weighted_score,
                           a.materials[i].weighted_score)
            /\ n >= 1 => a.best_overall = a.materials[AtRank(1)].material_id
            /\ a.pareto_optimal
                   = [r \in 1..top |-> a.materials[AtRank(r)].material_id]
            /\ Len(a.pareto_optimal) <= 3

\* An analysis of more than three materials moved a later material in
\* front of the first one.
C10_witness ==
    /\ last.op = "analyze_tradeoffs"
    /\ Len(inp.material_ids) > 3
    /\ Len(last.analysis.materials) > 3
    /\ last.analysis.materials[1].material_id # inp.material_ids[1]
    /\ last.analysis.materials[1].weighted_score
           # last.analysis.materials[4].weighted_score

====
